---- MODULE Spec2Model ----
(***************************************************************************)
(* Greenhouse node firmware (ESP32, FreeRTOS): command dispatch, the       *)
(* control task, the sensing task, the boot-health protocol and the        *)
(* telemetry spool of the connectivity task.                               *)
(*                                                                         *)
(* Conventions                                                             *)
(*  - temperatures and humidities are held in tenths (20.0 is 200), so the *)
(*    0.1 tolerance of the flash-wear guard is 1;                          *)
(*  - a JSON command payload is a record whose DOMAIN is the set of keys   *)
(*    the document contains (doc.containsKey(k) is k \in DOMAIN p);        *)
(*  - the key/value store is a function from the keys written so far to    *)
(*    their values (a key never written reads as the caller's default);    *)
(*  - a file is a sequence of record ids, or NoFile when it does not       *)
(*    exist; a telemetry record is identified by its generation number.    *)
(***************************************************************************)
EXTENDS Integers, Sequences, FiniteSets, TLC

(* ------------------------------------------------------------------ *)
(* Bounds of the model                                                 *)
(* ------------------------------------------------------------------ *)

\* telemetry records composed in one run
MaxRecords == 4
\* records of the RAM batch before it is flushed (50 in the source, scaled)
RAM_BUFFER_SIZE == 2
\* reboots (crash, watchdog, power cycle) in one run of the boot-health model
MaxBoots == 7
\* reboots in one run of the spool model
MaxSpoolBoots == 1
\* failed publish calls in one run of the spool model
MaxPublishFailures == 2
\* boots in one run of the manual-mode model
MaxManualBoots == 2
\* boots and telemetry records in one run of the boot-verification model
MaxVerifyBoots == 4
MaxVerifyRecords == 2

(* ------------------------------------------------------------------ *)
(* State                                                               *)
(* ------------------------------------------------------------------ *)

VARIABLES
    \* configuration in RAM
    TEMP_MIN_NIGHT, TEMP_MAX_DAY, HUM_MAX, SOIL_DRY, SOIL_WET,
    TANK_EMPTY_DIST, TANK_FULL_DIST, AIR_VAL, WATER_VAL,
    \* key/value store, namespace "greenhouse"
    preferences,
    \* mode and latched overrides
    manualMode, manualPump, manualFan, manualHeater,
    \* sensor snapshot
    currentTemp, currentHum, soilMoisture,
    \* actuator state and relay pins
    waterTankLevel, pumpStatus, fanStatus, heaterStatus,
    pinPump, pinFan, pinHeater,
    \* control task: position and locals of the running cycle
    pcControl, distanceCM, tankHasWater, cycleMode,
    \* history: a command was dispatched since the running cycle began;
    \* the soil values the cycle's two pump tests read; progress of the
    \* hysteresis scenario
    cmdInCycle, soilAtOn, soilAtOff, pumpBefore, timedOut, scenario,
    \* "boot" while setup() has not returned, "run" afterwards
    phase,
    \* environment: the bootloader has a previous slot; the broker session
    canRollBack, clientConnected,
    \* connectivity flags; the connectivity task is on the watchdog list
    wifiConnected, mqttConnected, connWdt,
    \* telemetry spool
    ramBuffer, ramBufferCount, hasOfflineData, offlineLog, processing,
    \* connectivity task: position and locals of processOfflineData
    pcConn, foundProcessing, foundLog, linePos, depth,
    \* history of the spool: records composed, records published, records
    \* lost with the RAM at a reboot, failed publish calls on a live
    \* session, a read-open of /processing.txt failed, records on disk
    \* when a drain started
    composed, published, ramLost, publishFailures, readOpenFailed, atDrainStart,
    \* which spool files existed when the last drain was invoked
    drainStartFiles,
    \* history of the boot-health protocol
    boots, unverifiedBoots, rollbacks, alertsSinceRollback, alertFailures,
    lastBoot, rebootAt,
    \* provisioning: button flag of the ISR, intents raised by the interface
    \* task, the portal_active flag, the portal of the WiFi manager
    btnRequest, reconfigureWiFi, stopPortalRequest, portalRunning, portalActive,
    \* interface task: position in its button block; connectivity task:
    \* position in the provisioning part of its loop
    pcIface, pcPortal,
    \* history: the button was pressed, a start intent was raised
    everPressed, everStartIntent,
    \* radio and clock: an access point is in range, WiFi.status() is
    \* WL_CONNECTED, an association attempt is in progress, time(nullptr) is
    \* past the sanity threshold, configTime was called
    networkUp, staConnected, reconnectPending, timeValid, ntpStarted,
    \* history: flips at every WiFi.reconnect(); client.connect() was called
    \* with the clock below the threshold
    retryParity, connectBeforeTime

cfgVars == <<TEMP_MIN_NIGHT, TEMP_MAX_DAY, HUM_MAX, SOIL_DRY, SOIL_WET,
             TANK_EMPTY_DIST, TANK_FULL_DIST, AIR_VAL, WATER_VAL>>
modeVars == <<manualMode, manualPump, manualFan, manualHeater>>
sensorVars == <<currentTemp, currentHum, soilMoisture>>
actuatorVars == <<waterTankLevel, pumpStatus, fanStatus, heaterStatus,
                  pinPump, pinFan, pinHeater>>
controlVars == <<pcControl, distanceCM, tankHasWater, cycleMode, cmdInCycle,
                 soilAtOn, soilAtOff, pumpBefore, timedOut, scenario>>
envVars == <<canRollBack, clientConnected>>
flagVars == <<wifiConnected, mqttConnected, connWdt>>
spoolVars == <<ramBuffer, ramBufferCount, hasOfflineData, offlineLog, processing>>
drainVars == <<pcConn, foundProcessing, foundLog, linePos, depth>>
spoolHist == <<composed, published, ramLost, publishFailures, readOpenFailed,
               atDrainStart, drainStartFiles>>
bootHist == <<boots, unverifiedBoots, rollbacks, alertsSinceRollback,
              alertFailures, lastBoot, rebootAt>>

linkVars == <<networkUp, staConnected, reconnectPending, timeValid, ntpStarted,
              retryParity, connectBeforeTime>>

buttonVars == <<btnRequest, reconfigureWiFi, stopPortalRequest, portalRunning,
                portalActive, pcIface, pcPortal, everPressed, everStartIntent>>

portalVars == <<btnRequest, reconfigureWiFi, stopPortalRequest, portalRunning,
                portalActive, pcIface, pcPortal, everPressed, everStartIntent,
                linkVars>>

vars == <<cfgVars, preferences, modeVars, sensorVars, actuatorVars, controlVars,
          phase, envVars, flagVars, spoolVars, drainVars, spoolHist, bootHist,
          portalVars>>

(* ------------------------------------------------------------------ *)
(* Helpers                                                             *)
(* ------------------------------------------------------------------ *)

Abs(x) == IF x < 0 THEN -x ELSE x

\* C integer division: truncation toward zero
TruncDiv(a, b) ==
    LET q == Abs(a) \div Abs(b)
    IN  IF (a < 0) # (b < 0) THEN -q ELSE q

\* Arduino constrain(amt, low, high)
Constrain(amt, low, high) ==
    IF amt < low THEN low ELSE IF amt > high THEN high ELSE amt

\* Arduino map(x, in_min, in_max, out_min, out_max); the core returns -1
\* for an empty input range
Map(x, in_min, in_max, out_min, out_max) ==
    IF in_max = in_min
    THEN -1
    ELSE TruncDiv((x - in_min) * (out_max - out_min), in_max - in_min) + out_min

\* the content of a file that does not exist (record ids are positive)
NoFile == <<-1>>

Has(p, k) == k \in DOMAIN p

\* preferences.getInt / getFloat / getBool (key, default)
PrefGet(store, key, default) ==
    IF key \in DOMAIN store THEN store[key] ELSE default

\* preferences.putInt / putFloat / putBool (key, value)
PrefPut(store, key, value) ==
    [k \in DOMAIN store \cup {key} |-> IF k = key THEN value ELSE store[k]]

(* ------------------------------------------------------------------ *)
(* Command dispatch: messageHandler                                    *)
(* ------------------------------------------------------------------ *)

\* variant: a float setpoint written whenever it differs
FloatFieldExact(cur, p, k1, k2) ==
    IF Has(p, k1) \/ Has(p, k2)
    THEN LET val == IF Has(p, k1) THEN p[k1] ELSE p[k2]
         IN  IF val >= 0 /\ val <= 1000 /\ cur # val THEN val ELSE cur
    ELSE cur

\* a float setpoint: either key, range [0,100], written when it moved by
\* more than 0.1
FloatField(cur, p, k1, k2) ==
    IF Has(p, k1) \/ Has(p, k2)
    THEN LET val == IF Has(p, k1) THEN p[k1] ELSE p[k2]
         IN  IF val >= 0 /\ val <= 1000 /\ Abs(cur - val) > 1 THEN val ELSE cur
    ELSE cur

\* variant: a percentage threshold without the range test
PercentFieldNoRange(cur, p, k) ==
    IF Has(p, k) /\ cur # p[k] THEN p[k] ELSE cur

\* a percentage threshold: range [0,100], written when different
PercentField(cur, p, k) ==
    IF Has(p, k) /\ p[k] >= 0 /\ p[k] <= 100 /\ cur # p[k] THEN p[k] ELSE cur

\* a tank distance: range (0,1000), written when different
DistField(cur, p, k) ==
    IF Has(p, k) /\ p[k] > 0 /\ p[k] < 1000 /\ cur # p[k] THEN p[k] ELSE cur

\* a calibration point: no range check, written when different
CalField(cur, p, k) ==
    IF Has(p, k) /\ cur # p[k] THEN p[k] ELSE cur

\* variant: the global is assigned and the put is left out
PutChangedSkipped(store, key, cur, new) == store

\* the store after the configuration part of the handler: each field that
\* changed in RAM is written under its key
PutChanged(store, key, cur, new) ==
    IF new # cur THEN PrefPut(store, key, new) ELSE store

ConfigWrites(store, p) ==
    LET s1 == PutChanged(store, "temp_min", TEMP_MIN_NIGHT,
                         FloatField(TEMP_MIN_NIGHT, p, "temp_min", "min_temp"))
        s2 == PutChanged(s1, "temp_max", TEMP_MAX_DAY,
                         FloatField(TEMP_MAX_DAY, p, "temp_max", "max_temp"))
        s3 == PutChanged(s2, "hum_max", HUM_MAX,
                         FloatField(HUM_MAX, p, "hum_max", "max_hum"))
        s4 == PutChanged(s3, "soil_dry", SOIL_DRY, PercentField(SOIL_DRY, p, "soil_dry"))
        s5 == PutChanged(s4, "soil_wet", SOIL_WET, PercentField(SOIL_WET, p, "soil_wet"))
        s6 == PutChanged(s5, "tank_empty", TANK_EMPTY_DIST,
                         DistField(TANK_EMPTY_DIST, p, "tank_empty_dist"))
        s7 == PutChanged(s6, "tank_full", TANK_FULL_DIST,
                         DistField(TANK_FULL_DIST, p, "tank_full_dist"))
        s8 == PutChanged(s7, "cal_air", AIR_VAL, CalField(AIR_VAL, p, "cal_air"))
    IN  PutChanged(s8, "cal_water", WATER_VAL, CalField(WATER_VAL, p, "cal_water"))

IsManualWord(m) == m \in {"MANUAL", "manual", "1"}
IsAutoWord(m) == m \in {"AUTO", "auto", "0"}

\* manualMode after the mode field
ModeAfter(p) ==
    IF Has(p, "mode")
    THEN IF IsManualWord(p["mode"]) THEN TRUE
         ELSE IF IsAutoWord(p["mode"]) THEN FALSE ELSE manualMode
    ELSE manualMode

\* variant: the AUTO word leaves the latched overrides alone
OverrideKeptOnAuto(cur, p, k) ==
    IF Has(p, k) /\ ModeAfter(p) THEN p[k] = 1 ELSE cur

\* variant: the override field gated by the mode before the payload
OverrideBeforeMode(cur, p, k) ==
    LET afterMode == IF Has(p, "mode") /\ ~IsManualWord(p["mode"]) /\ IsAutoWord(p["mode"])
                     THEN FALSE ELSE cur
    IN  IF Has(p, k) /\ manualMode THEN p[k] = 1 ELSE afterMode

\* a latched override after the mode field and then its own field
OverrideAfter(cur, p, k) ==
    LET afterMode == IF Has(p, "mode") /\ ~IsManualWord(p["mode"]) /\ IsAutoWord(p["mode"])
                     THEN FALSE ELSE cur
    IN  IF Has(p, k) /\ ModeAfter(p) THEN p[k] = 1 ELSE afterMode

OtaOutcomes == {"HTTP_UPDATE_FAILED", "HTTP_UPDATE_NO_UPDATES", "HTTP_UPDATE_OK"}

messageHandler(p, ota) ==
    /\ phase = "run"
    /\ TEMP_MIN_NIGHT' = FloatField(TEMP_MIN_NIGHT, p, "temp_min", "min_temp")
    /\ TEMP_MAX_DAY' = FloatField(TEMP_MAX_DAY, p, "temp_max", "max_temp")
    /\ HUM_MAX' = FloatField(HUM_MAX, p, "hum_max", "max_hum")
    /\ SOIL_DRY' = PercentField(SOIL_DRY, p, "soil_dry")
    /\ SOIL_WET' = PercentField(SOIL_WET, p, "soil_wet")
    /\ TANK_EMPTY_DIST' = DistField(TANK_EMPTY_DIST, p, "tank_empty_dist")
    /\ TANK_FULL_DIST' = DistField(TANK_FULL_DIST, p, "tank_full_dist")
    /\ AIR_VAL' = CalField(AIR_VAL, p, "cal_air")
    /\ WATER_VAL' = CalField(WATER_VAL, p, "cal_water")
    /\ preferences' = ConfigWrites(preferences, p)
    /\ manualMode' = ModeAfter(p)
    /\ manualPump' = OverrideAfter(manualPump, p, "pump")
    /\ manualFan' = OverrideAfter(manualFan, p, "fan")
    /\ manualHeater' = OverrideAfter(manualHeater, p, "heater")
    /\ cmdInCycle' = (pcControl # "delay")
    \* OTA: the watchdog registration is dropped for the download and added
    \* again only in the FAILED case; a successful update restarts the chip
    /\ IF Has(p, "update_url")
       THEN /\ connWdt' = (ota = "HTTP_UPDATE_FAILED")
            /\ phase' = IF ota = "HTTP_UPDATE_OK" THEN "boot" ELSE "run"
            /\ canRollBack' = IF ota = "HTTP_UPDATE_OK" THEN TRUE ELSE canRollBack
       ELSE UNCHANGED <<connWdt, phase, canRollBack>>
    /\ UNCHANGED <<sensorVars, actuatorVars, pcControl, distanceCM, tankHasWater,
                   cycleMode, soilAtOn, soilAtOff, pumpBefore, timedOut, scenario,
                   clientConnected, wifiConnected, mqttConnected,
                   spoolVars, drainVars, spoolHist, bootHist, portalVars>>

(* ------------------------------------------------------------------ *)
(* Power-on state, reboot and setup()                                  *)
(* ------------------------------------------------------------------ *)

EmptyStore == [k \in {} |-> 0]

\* the state at power-on of a factory-fresh node: static initialisers, an
\* empty key/value namespace, no spool file
Init ==
    /\ TEMP_MIN_NIGHT = 200 /\ TEMP_MAX_DAY = 300 /\ HUM_MAX = 750
    /\ SOIL_DRY = 40 /\ SOIL_WET = 70
    /\ TANK_EMPTY_DIST = 25 /\ TANK_FULL_DIST = 5
    /\ AIR_VAL = 4095 /\ WATER_VAL = 1670
    /\ preferences = EmptyStore
    /\ manualMode = FALSE /\ manualPump = FALSE
    /\ manualFan = FALSE /\ manualHeater = FALSE
    /\ currentTemp = 0 /\ currentHum = 0 /\ soilMoisture = 0
    /\ waterTankLevel = 0
    /\ pumpStatus = FALSE /\ fanStatus = FALSE /\ heaterStatus = FALSE
    /\ pinPump = FALSE /\ pinFan = FALSE /\ pinHeater = FALSE
    /\ pcControl = "measure" /\ distanceCM = 0 /\ tankHasWater = FALSE
    /\ cycleMode = "none"
    /\ cmdInCycle = FALSE /\ soilAtOn = 0 /\ soilAtOff = 0
    /\ pumpBefore = FALSE /\ timedOut = FALSE /\ scenario = 0
    /\ phase = "boot"
    /\ canRollBack = FALSE
    /\ clientConnected = FALSE
    /\ wifiConnected = FALSE /\ mqttConnected = FALSE /\ connWdt = FALSE
    /\ ramBuffer = <<>> /\ ramBufferCount = 0 /\ hasOfflineData = TRUE
    /\ offlineLog = NoFile /\ processing = NoFile
    /\ pcConn = "poll" /\ foundProcessing = FALSE /\ foundLog = FALSE
    /\ linePos = 0 /\ depth = 0
    /\ composed = 0 /\ published = {} /\ ramLost = {}
    /\ publishFailures = 0 /\ readOpenFailed = FALSE /\ atDrainStart = {}
    /\ drainStartFiles = "none"
    /\ boots = 0 /\ unverifiedBoots = 0 /\ rollbacks = 0
    /\ alertsSinceRollback = 0 /\ alertFailures = 0 /\ lastBoot = "none"
    /\ rebootAt = "none"
    /\ btnRequest = FALSE /\ reconfigureWiFi = FALSE /\ stopPortalRequest = FALSE
    /\ portalRunning = FALSE /\ portalActive = FALSE
    /\ pcIface = "test" /\ pcPortal = "start"
    /\ everPressed = FALSE /\ everStartIntent = FALSE
    /\ networkUp = FALSE /\ staConnected = FALSE /\ reconnectPending = FALSE
    /\ timeValid = FALSE /\ ntpStarted = FALSE
    /\ retryParity = FALSE /\ connectBeforeTime = FALSE

Range(f) == {f[i] : i \in DOMAIN f}

\* the volatile state a boot starts from (static initialisers; the pins
\* are driven LOW by setup)
VolatileReset ==
    /\ manualMode' = FALSE /\ manualPump' = FALSE
    /\ manualFan' = FALSE /\ manualHeater' = FALSE
    /\ currentTemp' = 0 /\ currentHum' = 0 /\ soilMoisture' = 0
    /\ waterTankLevel' = 0
    /\ pumpStatus' = FALSE /\ fanStatus' = FALSE /\ heaterStatus' = FALSE
    /\ pinPump' = FALSE /\ pinFan' = FALSE /\ pinHeater' = FALSE
    /\ pcControl' = "measure" /\ distanceCM' = 0 /\ tankHasWater' = FALSE
    /\ cycleMode' = "none"
    /\ cmdInCycle' = FALSE /\ soilAtOn' = 0 /\ soilAtOff' = 0
    /\ pumpBefore' = FALSE /\ timedOut' = FALSE /\ scenario' = 0
    /\ clientConnected' = FALSE
    /\ wifiConnected' = FALSE /\ mqttConnected' = FALSE
    /\ ramBuffer' = <<>> /\ ramBufferCount' = 0 /\ hasOfflineData' = TRUE
    /\ pcConn' = "poll" /\ foundProcessing' = FALSE /\ foundLog' = FALSE
    /\ linePos' = 0 /\ depth' = 0
    /\ ramLost' = ramLost \cup Range(ramBuffer)
    /\ btnRequest' = FALSE /\ reconfigureWiFi' = FALSE /\ stopPortalRequest' = FALSE
    /\ portalRunning' = FALSE /\ portalActive' = FALSE
    /\ pcIface' = "test" /\ pcPortal' = "start"
    /\ everPressed' = FALSE /\ everStartIntent' = FALSE
    \* the radio starts unassociated and autoConnect starts an attempt; the
    \* clock survives a warm restart and is lost with the power
    /\ staConnected' = FALSE /\ reconnectPending' = TRUE /\ ntpStarted' = FALSE
    /\ \E kept \in BOOLEAN : timeValid' = (timeValid /\ kept)
    /\ UNCHANGED <<networkUp, retryParity, connectBeforeTime>>

\* the boot-health part of setup(): the store after it, and whether the
\* boot ends in a rollback restart
RollbackThreshold == 3

\* variant: the rollback is requested one boot early
BootRollsBackEarly(crashCount) == crashCount >= RollbackThreshold - 1 /\ canRollBack

BootRollsBack(crashCount) == crashCount >= RollbackThreshold /\ canRollBack

\* variant: the rollback branch falls through to the increment
BootHealthWritesFallThrough(store, crashCount) ==
    IF BootRollsBack(crashCount)
    THEN PrefPut(PrefPut(store, "crash_count", 1), "rb_happened", TRUE)
    ELSE PrefPut(store, "crash_count", crashCount + 1)

BootHealthWrites(store, crashCount) ==
    IF BootRollsBack(crashCount)
    THEN PrefPut(PrefPut(store, "crash_count", 0), "rb_happened", TRUE)
    ELSE IF crashCount >= RollbackThreshold
         THEN PrefPut(PrefPut(store, "crash_count", 0), "crash_count", crashCount + 1)
         ELSE PrefPut(store, "crash_count", crashCount + 1)

\* setup(): boot-health, configuration load, task creation; a rollback
\* restarts the chip before anything else runs
setup ==
    /\ phase = "boot"
    /\ VolatileReset
    /\ LET crashCount == PrefGet(preferences, "crash_count", 0)
       IN  /\ preferences' = BootHealthWrites(preferences, crashCount)
           /\ boots' = boots + 1
           /\ IF BootRollsBack(crashCount)
              THEN /\ phase' = "boot"
                   /\ connWdt' = FALSE
                   /\ rollbacks' = rollbacks + 1
                   /\ alertsSinceRollback' = 0
                   /\ unverifiedBoots' = 0
                   /\ lastBoot' = "rollback"
                   /\ UNCHANGED cfgVars
              ELSE /\ phase' = "run"
                   /\ connWdt' = TRUE
                   /\ unverifiedBoots' = unverifiedBoots + 1
                   /\ lastBoot' = IF crashCount >= RollbackThreshold
                                  THEN "noslot" ELSE "counted"
                   /\ UNCHANGED <<rollbacks, alertsSinceRollback>>
                   /\ TEMP_MIN_NIGHT' = PrefGet(preferences, "temp_min", 200)
                   /\ TEMP_MAX_DAY' = PrefGet(preferences, "temp_max", 300)
                   /\ HUM_MAX' = PrefGet(preferences, "hum_max", 750)
                   /\ SOIL_DRY' = PrefGet(preferences, "soil_dry", 40)
                   /\ SOIL_WET' = PrefGet(preferences, "soil_wet", 70)
                   /\ TANK_EMPTY_DIST' = PrefGet(preferences, "tank_empty", 25)
                   /\ TANK_FULL_DIST' = PrefGet(preferences, "tank_full", 5)
                   /\ AIR_VAL' = PrefGet(preferences, "cal_air", 4095)
                   /\ WATER_VAL' = PrefGet(preferences, "cal_water", 1670)
    /\ UNCHANGED <<canRollBack, offlineLog, processing, composed, published,
                   publishFailures, readOpenFailed, atDrainStart, drainStartFiles,
                   alertFailures,
                   rebootAt>>

\* a watchdog reset, a crash or a power cycle while the tasks run
Reboot(maxBoots) ==
    /\ phase = "run"
    /\ boots < maxBoots
    /\ phase' = "boot"
    /\ rebootAt' = pcConn
    /\ UNCHANGED <<cfgVars, preferences, modeVars, sensorVars, actuatorVars,
                   controlVars, envVars, flagVars, spoolVars, drainVars,
                   spoolHist, boots, unverifiedBoots, rollbacks,
                   alertsSinceRollback, alertFailures, lastBoot, portalVars>>

(* ------------------------------------------------------------------ *)
(* Command payloads                                                    *)
(* ------------------------------------------------------------------ *)

\* payloads of the command-dispatch model
CmdPayloads == <<
    [temp_min |-> 350, temp_max |-> 300],
    [temp_min |-> 1500, soil_dry |-> 30],
    [min_temp |-> 200],
    [soil_dry |-> 80],
    [soil_wet |-> 60],
    [soil_dry |-> 40, soil_wet |-> 70],
    [soil_wet |-> 101],
    [tank_full_dist |-> 30],
    [tank_empty_dist |-> 50],
    [tank_empty_dist |-> 25, tank_full_dist |-> 5],
    [mode |-> "MANUAL", pump |-> 1],
    [mode |-> "AUTO", pump |-> 1],
    [mode |-> "AUTO"],
    [pump |-> 1],
    [pump |-> 0],
    [fan |-> 1, heater |-> 1],
    [mode |-> "1", fan |-> 0] >>

Command ==
    \E i \in DOMAIN CmdPayloads : messageHandler(CmdPayloads[i], "HTTP_UPDATE_FAILED")

NextCmd == setup \/ Command

SpecCmd == Init /\ [][NextCmd]_vars

\* mode words of the mode-field model: the documented spellings, mixed
\* case, the numeric forms and an unknown word
ModeWords == {"MANUAL", "manual", "Manual", "1", "AUTO", "auto", "Auto", "0", "eco"}

ModeCommand ==
    \E w \in ModeWords : messageHandler([mode |-> w], "HTTP_UPDATE_FAILED")

NextMode == setup \/ Command \/ ModeCommand

SpecMode == Init /\ [][NextMode]_vars

(* ------------------------------------------------------------------ *)
(* Sensing task: TaskReadSensors                                       *)
(* ------------------------------------------------------------------ *)

\* Sensing (priority 1) and control (priority 2) are pinned to the same
\* core: the sensing task runs only while the control task is blocked in
\* its vTaskDelay, and the control task may preempt it between two writes.
\* variant: the sensing task runs at any point of the control cycle
SensingAnyTime == TRUE

ControlBlocked == pcControl = "delay"

\* AHT readings <<temperature, humidity>> in tenths
AhtReadings == {<<350, 800>>}

\* raw soil ADC readings: 35, 50, 55, 60 and 75 % with the default calibration
SoilReadings == {3246, 2882, 2761, 2640, 2276}

\* a dry and a wet reading (35 and 75 %)
SoilDryWet == {3246, 2276}

SoilPercent(rawADC) ==
    Map(Constrain(rawADC, WATER_VAL, AIR_VAL), AIR_VAL, WATER_VAL, 0, 100)

ReadAht ==
    /\ phase = "run"
    /\ ControlBlocked
    /\ \E r \in AhtReadings :
          /\ currentTemp' = r[1]
          /\ currentHum' = r[2]
    /\ UNCHANGED <<cfgVars, preferences, modeVars, soilMoisture, actuatorVars,
                   controlVars, phase, envVars, flagVars, spoolVars, drainVars,
                   spoolHist, bootHist, portalVars>>

\* what the event structures, locals that are never initialised, may hold
\* when getEvent fails without filling them: any float, here an impossible
\* pair (-273.0 degrees, 300.0 %)
AhtGarbage == {<<-2730, 3000>>}

\* a failed driver read: the result of getEvent is not looked at, and the
\* globals are assigned from the event structures all the same; these hold
\* what the stack held, which may be the values of the previous pass
ReadAhtFault ==
    /\ phase = "run"
    /\ ControlBlocked
    /\ \E r \in AhtGarbage \cup {<<currentTemp, currentHum>>} :
          /\ currentTemp' = r[1]
          /\ currentHum' = r[2]
    /\ UNCHANGED <<cfgVars, preferences, modeVars, soilMoisture, actuatorVars,
                   controlVars, phase, envVars, flagVars, spoolVars, drainVars,
                   spoolHist, bootHist, portalVars>>

ReadSoil(readings) ==
    /\ phase = "run"
    /\ ControlBlocked
    /\ \E rawADC \in readings : soilMoisture' = SoilPercent(rawADC)
    /\ UNCHANGED <<cfgVars, preferences, modeVars, currentTemp, currentHum,
                   actuatorVars, controlVars, phase, envVars, flagVars,
                   spoolVars, drainVars, spoolHist, bootHist, portalVars>>

(* ------------------------------------------------------------------ *)
(* Control task: TaskControlSystem, one step per shared-variable read  *)
(* ------------------------------------------------------------------ *)

\* echo pulse widths in microseconds; 0 is the 30 ms timeout
PulseWidths == {0, 600, 1800}

\* duration * 0.034 / 2, truncated to int
PulseToCm(duration) == (duration * 17) \div 1000

notControl == <<cfgVars, preferences, modeVars, sensorVars, phase, envVars,
                flagVars, spoolVars, drainVars, spoolHist, bootHist, portalVars>>

\* the hysteresis scenario: soil 50, 35, 55, 75, 60 with soil_dry = 40,
\* soil_wet = 70 and water in the tank, starting with the pump OFF
ScenarioSoil == <<50, 35, 55, 75, 60>>
ScenarioPump == <<FALSE, TRUE, TRUE, FALSE, FALSE>>

ScenarioAfter(inAuto) ==
    LET qualified == /\ inAuto /\ ~cmdInCycle /\ tankHasWater
                     /\ SOIL_DRY = 40 /\ SOIL_WET = 70
                     /\ soilAtOn = soilAtOff
    IN  IF qualified /\ scenario \in 1..4 /\ soilAtOn = ScenarioSoil[scenario + 1]
        THEN scenario + 1
        ELSE IF qualified /\ soilAtOn = ScenarioSoil[1] /\ ~pumpBefore
             THEN 1 ELSE 0

\* pulseIn and the distance (timeout: assume the tank is empty)
ControlMeasure ==
    /\ phase = "run"
    /\ pcControl \in {"measure", "delay"}
    /\ \E duration \in PulseWidths :
          /\ distanceCM' = IF duration = 0 THEN TANK_EMPTY_DIST ELSE PulseToCm(duration)
          /\ timedOut' = (duration = 0)
    /\ pumpBefore' = pumpStatus
    /\ cmdInCycle' = FALSE
    /\ soilAtOn' = soilMoisture
    /\ soilAtOff' = soilMoisture
    /\ pcControl' = "level"
    /\ UNCHANGED <<tankHasWater, cycleMode, scenario, actuatorVars, notControl>>

\* clamp, tank level, has-water
ControlLevel ==
    /\ phase = "run"
    /\ pcControl = "level"
    /\ LET d == Constrain(distanceCM, TANK_FULL_DIST, TANK_EMPTY_DIST)
       IN  /\ distanceCM' = d
           /\ waterTankLevel' = Map(d, TANK_EMPTY_DIST, TANK_FULL_DIST, 0, 100)
           /\ tankHasWater' = (d < TANK_EMPTY_DIST)
    /\ pcControl' = "branch"
    /\ UNCHANGED <<cycleMode, cmdInCycle, soilAtOn, soilAtOff, pumpBefore, timedOut,
                   scenario, pumpStatus, fanStatus, heaterStatus, pinPump, pinFan, pinHeater,
                   notControl>>

\* if (manualMode)
ControlBranch ==
    /\ phase = "run"
    /\ pcControl = "branch"
    /\ pcControl' = IF manualMode THEN "manual_pump_pin" ELSE "auto_pump_on"
    /\ cycleMode' = IF manualMode THEN "MANUAL" ELSE "AUTO"
    /\ UNCHANGED <<distanceCM, tankHasWater, cmdInCycle, soilAtOn, soilAtOff,
                   pumpBefore, timedOut, scenario, actuatorVars, notControl>>

\* variant: the dry-run interlock applied to the manual pump
ManualPumpInterlocked == manualPump /\ tankHasWater

\* MANUAL: each override is read once for the relay and once for the status
ManualPumpValue == manualPump

ManualPumpPin ==
    /\ phase = "run"
    /\ pcControl = "manual_pump_pin"
    /\ pinPump' = ManualPumpValue
    /\ pcControl' = "manual_pump_status"
    /\ UNCHANGED <<distanceCM, tankHasWater, cycleMode, cmdInCycle, soilAtOn, soilAtOff,
                   pumpBefore, timedOut, scenario, waterTankLevel, pumpStatus,
                   fanStatus, heaterStatus, pinFan, pinHeater, notControl>>

ManualPumpStatus ==
    /\ phase = "run"
    /\ pcControl = "manual_pump_status"
    /\ pumpStatus' = ManualPumpValue
    /\ pcControl' = "manual_fan_pin"
    /\ UNCHANGED <<distanceCM, tankHasWater, cycleMode, cmdInCycle, soilAtOn, soilAtOff,
                   pumpBefore, timedOut, scenario, waterTankLevel, fanStatus,
                   heaterStatus, pinPump, pinFan, pinHeater, notControl>>

ManualFanPin ==
    /\ phase = "run"
    /\ pcControl = "manual_fan_pin"
    /\ pinFan' = manualFan
    /\ pcControl' = "manual_fan_status"
    /\ UNCHANGED <<distanceCM, tankHasWater, cycleMode, cmdInCycle, soilAtOn, soilAtOff,
                   pumpBefore, timedOut, scenario, waterTankLevel, pumpStatus,
                   fanStatus, heaterStatus, pinPump, pinHeater, notControl>>

ManualFanStatus ==
    /\ phase = "run"
    /\ pcControl = "manual_fan_status"
    /\ fanStatus' = manualFan
    /\ pcControl' = "manual_heater_pin"
    /\ UNCHANGED <<distanceCM, tankHasWater, cycleMode, cmdInCycle, soilAtOn, soilAtOff,
                   pumpBefore, timedOut, scenario, waterTankLevel, pumpStatus,
                   heaterStatus, pinPump, pinFan, pinHeater, notControl>>

ManualHeaterPin ==
    /\ phase = "run"
    /\ pcControl = "manual_heater_pin"
    /\ pinHeater' = manualHeater
    /\ pcControl' = "manual_heater_status"
    /\ UNCHANGED <<distanceCM, tankHasWater, cycleMode, cmdInCycle, soilAtOn, soilAtOff,
                   pumpBefore, timedOut, scenario, waterTankLevel, pumpStatus,
                   fanStatus, heaterStatus, pinPump, pinFan, notControl>>

ManualHeaterStatus ==
    /\ phase = "run"
    /\ pcControl = "manual_heater_status"
    /\ heaterStatus' = manualHeater
    /\ pcControl' = "done"
    /\ scenario' = ScenarioAfter(FALSE)
    /\ UNCHANGED <<distanceCM, tankHasWater, cycleMode, cmdInCycle, soilAtOn, soilAtOff,
                   pumpBefore, timedOut, waterTankLevel, pumpStatus, fanStatus,
                   pinPump, pinFan, pinHeater, notControl>>

\* variant: watering only while the broker session is up
PumpOnTestOnline(soil) == soil < SOIL_DRY /\ tankHasWater /\ mqttConnected

\* variant: one threshold, no hysteresis band
PumpOnTestSingleThreshold(soil) == soil <= SOIL_WET /\ tankHasWater

\* AUTO: if (soilMoisture < SOIL_DRY && tankHasWater) pump ON
PumpOnTest(soil) == soil < SOIL_DRY /\ tankHasWater

AutoPumpOn ==
    /\ phase = "run"
    /\ pcControl = "auto_pump_on"
    /\ soilAtOn' = soilMoisture
    /\ IF PumpOnTest(soilMoisture)
       THEN /\ pinPump' = TRUE
            /\ pumpStatus' = TRUE
            /\ soilAtOff' = soilMoisture
            /\ pcControl' = "auto_fan"
       ELSE /\ pcControl' = "auto_pump_off"
            /\ UNCHANGED <<pinPump, pumpStatus, soilAtOff>>
    /\ UNCHANGED <<distanceCM, tankHasWater, cycleMode, cmdInCycle, pumpBefore, timedOut,
                   scenario, waterTankLevel, fanStatus, heaterStatus, pinFan,
                   pinHeater, notControl>>

\* variant: the has-water clause missing from the OFF test
PumpOffTestNoInterlock(soil) == soil > SOIL_WET

\* AUTO: else if (soilMoisture > SOIL_WET || !tankHasWater) pump OFF
PumpOffTest(soil) == soil > SOIL_WET \/ ~tankHasWater

AutoPumpOff ==
    /\ phase = "run"
    /\ pcControl = "auto_pump_off"
    /\ soilAtOff' = soilMoisture
    /\ IF PumpOffTest(soilMoisture)
       THEN /\ pinPump' = FALSE
            /\ pumpStatus' = FALSE
       ELSE UNCHANGED <<pinPump, pumpStatus>>
    /\ pcControl' = "auto_fan"
    /\ UNCHANGED <<distanceCM, tankHasWater, cycleMode, cmdInCycle, soilAtOn, pumpBefore,
                   timedOut, scenario, waterTankLevel, fanStatus, heaterStatus,
                   pinFan, pinHeater, notControl>>

\* variant: the fan follows the temperature alone
FanTestTempOnly == currentTemp > TEMP_MAX_DAY

\* AUTO: fan ON iff too hot or too humid
FanTest == currentTemp > TEMP_MAX_DAY \/ currentHum > HUM_MAX

AutoFan ==
    /\ phase = "run"
    /\ pcControl = "auto_fan"
    /\ pinFan' = FanTest
    /\ fanStatus' = FanTest
    /\ pcControl' = "auto_heater"
    /\ UNCHANGED <<distanceCM, tankHasWater, cycleMode, cmdInCycle, soilAtOn, soilAtOff,
                   pumpBefore, timedOut, scenario, waterTankLevel, pumpStatus,
                   heaterStatus, pinPump, pinHeater, notControl>>

\* AUTO: heater ON iff too cold; the cycle ends
HeaterTest == currentTemp < TEMP_MIN_NIGHT

AutoHeater ==
    /\ phase = "run"
    /\ pcControl = "auto_heater"
    /\ pinHeater' = HeaterTest
    /\ heaterStatus' = HeaterTest
    /\ pcControl' = "done"
    /\ scenario' = ScenarioAfter(TRUE)
    /\ UNCHANGED <<distanceCM, tankHasWater, cycleMode, cmdInCycle, soilAtOn, soilAtOff,
                   pumpBefore, timedOut, waterTankLevel, pumpStatus, fanStatus,
                   pinPump, pinFan, notControl>>

\* vTaskDelay: the cycle's locals are dead until the next cycle
ControlSleep ==
    /\ phase = "run"
    /\ pcControl = "done"
    /\ pcControl' = "delay"
    /\ distanceCM' = 0 /\ tankHasWater' = FALSE /\ timedOut' = FALSE
    /\ pumpBefore' = FALSE /\ cmdInCycle' = FALSE
    /\ soilAtOn' = 0 /\ soilAtOff' = 0
    /\ cycleMode' = "none"
    /\ UNCHANGED <<scenario, actuatorVars, notControl>>

ControlCommon == ControlMeasure \/ ControlLevel \/ ControlBranch \/ ControlSleep

ControlManual ==
    \/ ManualPumpPin \/ ManualPumpStatus \/ ManualFanPin \/ ManualFanStatus
    \/ ManualHeaterPin \/ ManualHeaterStatus

ControlAuto == AutoPumpOn \/ AutoPumpOff \/ AutoFan \/ AutoHeater

TaskControlSystem == ControlCommon \/ ControlManual \/ ControlAuto

\* payloads of the control model: mode, overrides, an inverted tank pair
CtlPayloads == <<
    [mode |-> "MANUAL", pump |-> 1],
    [mode |-> "MANUAL", fan |-> 1, heater |-> 1],
    [mode |-> "AUTO"],
    [pump |-> 0],
    [tank_full_dist |-> 30] >>

ControlCommand ==
    \E i \in DOMAIN CtlPayloads : messageHandler(CtlPayloads[i], "HTTP_UPDATE_FAILED")

NextCtl ==
    \/ setup \/ ReadAht \/ ReadSoil(SoilDryWet)
    \/ TaskControlSystem \/ ControlCommand

SpecCtl == Init /\ [][NextCtl]_vars

\* payloads of the hysteresis model: the thresholds move, the mode stays AUTO
HystPayloads == <<
    [soil_dry |-> 80],
    [soil_wet |-> 60] >>

ThresholdCommand ==
    \E i \in DOMAIN HystPayloads : messageHandler(HystPayloads[i], "HTTP_UPDATE_FAILED")

NextHyst ==
    \/ setup \/ ReadAht \/ ReadSoil(SoilReadings)
    \/ ControlCommon \/ ControlAuto \/ ThresholdCommand

SpecHyst == Init /\ [][NextHyst]_vars

\* payloads of the manual-mode model
ManualPayloads == <<
    [mode |-> "MANUAL", pump |-> 1],
    [mode |-> "MANUAL", fan |-> 1, heater |-> 1],
    [mode |-> "AUTO"],
    [pump |-> 0] >>

ManualCommand ==
    \E i \in DOMAIN ManualPayloads : messageHandler(ManualPayloads[i], "HTTP_UPDATE_FAILED")

NextManual ==
    \/ setup
    \/ Reboot(MaxManualBoots)
    \/ ReadSoil(SoilDryWet)
    \/ TaskControlSystem
    \/ ManualCommand

SpecManual == Init /\ [][NextManual]_vars

(* ------------------------------------------------------------------ *)
(* Connectivity task: link state, boot verification, rollback alert    *)
(* ------------------------------------------------------------------ *)

notConnectivity == <<cfgVars, modeVars, sensorVars, actuatorVars, controlVars,
                     phase, canRollBack, connWdt, portalVars>>

\* client.connect() is not called (5 s rate limit), fails, or succeeds
ConnectOutcomes == {"skip", "fail", "ok"}

\* variant: a successful connect leaves crash_count alone
VerifiedStoreKept(store) == store

\* on a successful connect: the boot is verified, crash_count goes back to 0
VerifiedStore(store) ==
    IF PrefGet(store, "crash_count", 0) > 0
    THEN PrefPut(store, "crash_count", 0) ELSE store

\* on a successful connect: the rollback alert is due
AlertDue(store) == PrefGet(store, "rb_happened", FALSE)

\* variant: rb_happened cleared whatever the publish call returned
AlertWritesAlways(store, alertOk) ==
    IF AlertDue(store) THEN PrefPut(store, "rb_happened", FALSE) ELSE store

\* rb_happened is cleared only when the alert's publish call returned true
AlertWrites(store, alertOk) ==
    IF AlertDue(store) /\ alertOk THEN PrefPut(store, "rb_happened", FALSE) ELSE store

\* one pass of the loop up to the telemetry block: WiFi status, MQTT
\* session, flags
ConnectivityPoll ==
    /\ phase = "run"
    /\ pcConn = "poll"
    /\ \E wifiUp \in BOOLEAN, portalUp \in BOOLEAN,
          connect \in ConnectOutcomes, alertOk \in BOOLEAN :
         /\ alertOk \/ alertFailures < MaxPublishFailures
         \* inputs the pass does not read are fixed, not enumerated
         /\ wifiUp => ~portalUp
         /\ ~wifiUp => connect = "skip"
         /\ connect # "ok" => alertOk
         /\ IF wifiUp /\ ~clientConnected /\ connect = "ok"
            THEN LET verified == VerifiedStore(preferences)
                 IN  /\ wifiConnected' = TRUE
                     /\ mqttConnected' = TRUE
                     /\ clientConnected' = TRUE
                     /\ preferences' = AlertWrites(verified, alertOk)
                     /\ unverifiedBoots' = 0
                     /\ alertsSinceRollback' =
                           IF AlertDue(verified) /\ alertOk
                           THEN alertsSinceRollback + 1 ELSE alertsSinceRollback
                     /\ alertFailures' =
                           IF AlertDue(verified) /\ ~alertOk
                           THEN alertFailures + 1 ELSE alertFailures
            ELSE /\ wifiConnected' = IF wifiUp THEN TRUE
                                     ELSE IF portalUp THEN wifiConnected ELSE FALSE
                 /\ mqttConnected' = IF wifiUp THEN clientConnected
                                     ELSE IF portalUp THEN mqttConnected ELSE FALSE
                 /\ UNCHANGED <<clientConnected, preferences, unverifiedBoots,
                                alertsSinceRollback, alertFailures>>
    /\ UNCHANGED <<notConnectivity, spoolVars, drainVars, spoolHist,
                   boots, rollbacks, lastBoot, rebootAt>>

\* the broker session ends (network loss, keep-alive timeout, broker restart)
LinkDrop ==
    /\ phase = "run"
    /\ clientConnected
    /\ clientConnected' = FALSE
    /\ UNCHANGED <<notConnectivity, preferences, wifiConnected, mqttConnected,
                   spoolVars, drainVars, spoolHist, bootHist>>

(* ------------------------------------------------------------------ *)
(* Connectivity task: telemetry and the offline spool                  *)
(* ------------------------------------------------------------------ *)

\* what client.publish() can return: false without a session, either
\* value with one
PublishOutcomes ==
    IF ~clientConnected THEN {FALSE}
    ELSE IF publishFailures < MaxPublishFailures THEN BOOLEAN ELSE {TRUE}

FileRecords(f) == IF f = NoFile THEN {} ELSE Range(f)

\* variant: the batch is written in front of what the file holds
PrependTo(f, lines) == IF f = NoFile THEN lines ELSE lines \o f

\* print to a file opened with FILE_APPEND (created when missing)
AppendTo(f, lines) == IF f = NoFile THEN lines ELSE f \o lines

\* variant: a flush that appends without raising hasOfflineData
flushRamBufferNoFlag(buf, cnt, log, has, openOk) ==
    IF cnt > 0 /\ openOk
    THEN [ramBuffer |-> <<>>, ramBufferCount |-> 0,
          offlineLog |-> AppendTo(log, buf), hasOfflineData |-> has]
    ELSE [ramBuffer |-> buf, ramBufferCount |-> cnt,
          offlineLog |-> log, hasOfflineData |-> has]

\* flushRamBuffer(): the spool state after it; openOk is the result of
\* opening /offline_log.txt for append
flushRamBuffer(buf, cnt, log, has, openOk) ==
    IF cnt > 0 /\ openOk
    THEN [ramBuffer |-> <<>>, ramBufferCount |-> 0,
          offlineLog |-> AppendTo(log, buf), hasOfflineData |-> TRUE]
    ELSE [ramBuffer |-> buf, ramBufferCount |-> cnt,
          offlineLog |-> log, hasOfflineData |-> has]

\* logDataOffline(): buffer in RAM, flush when the batch is full
logDataOffline(rec, openOk) ==
    LET buf == Append(ramBuffer, rec)
        cnt == ramBufferCount + 1
    IN  IF cnt >= RAM_BUFFER_SIZE
        THEN flushRamBuffer(buf, cnt, offlineLog, hasOfflineData, openOk)
        ELSE [ramBuffer |-> buf, ramBufferCount |-> cnt,
              offlineLog |-> offlineLog, hasOfflineData |-> hasOfflineData]

SetSpool(sp) ==
    /\ ramBuffer' = sp.ramBuffer
    /\ ramBufferCount' = sp.ramBufferCount
    /\ offlineLog' = sp.offlineLog
    /\ hasOfflineData' = sp.hasOfflineData

\* the combination of spool files a directory listing would find
FilesPresent(proc, log) ==
    IF proc # NoFile
    THEN IF log # NoFile THEN "both" ELSE "processing"
    ELSE IF log # NoFile THEN "log" ELSE "none"

notSpool == <<notConnectivity, preferences, envVars, wifiConnected, mqttConnected,
              bootHist>>

\* the telemetry block (every 5 s): compose a record, then publish it and
\* start a drain, or log it offline
TelemetryTick ==
    /\ phase = "run"
    /\ pcConn = "poll"
    /\ composed < MaxRecords
    /\ composed' = composed + 1
    /\ \E openOk \in BOOLEAN :
         IF wifiConnected /\ mqttConnected
         THEN \E sent \in PublishOutcomes :
                LET sp == flushRamBuffer(ramBuffer, ramBufferCount, offlineLog,
                                         hasOfflineData, openOk)
                IN  /\ published' = IF sent THEN published \cup {composed + 1}
                                    ELSE published
                    /\ publishFailures' = IF clientConnected /\ ~sent
                                          THEN publishFailures + 1 ELSE publishFailures
                    /\ SetSpool(sp)
                    /\ drainStartFiles' = FilesPresent(processing, sp.offlineLog)
                    /\ atDrainStart' = atDrainStart \cup FileRecords(sp.offlineLog)
                                          \cup FileRecords(processing)
                    /\ pcConn' = "drain_entry"
         ELSE /\ SetSpool(logDataOffline(composed + 1, openOk))
              /\ UNCHANGED <<published, publishFailures, atDrainStart,
                             drainStartFiles, pcConn>>
    /\ UNCHANGED <<notSpool, processing, foundProcessing, foundLog, linePos, depth,
                   ramLost, readOpenFailed>>

drainFrame == <<notSpool, ramBuffer, ramBufferCount, composed, ramLost, atDrainStart,
                drainStartFiles>>

\* variant: the new log is staged before the pending file is retried
FirstStepRenameFirst(fp, fl) == IF fl THEN "drain_rename" ELSE "drain_open"

\* processOfflineData(): the pending /processing.txt is retried before the
\* log is staged
FirstStep(fp, fl) == IF fp THEN "drain_open" ELSE "drain_rename"

\* processOfflineData(): entry test and directory listing
DrainList ==
    /\ phase = "run"
    /\ pcConn = "drain_entry"
    /\ \E rootOk \in BOOLEAN :
         LET fp == processing # NoFile
             fl == offlineLog # NoFile
         IN  IF ~hasOfflineData \/ ~rootOk
             THEN /\ pcConn' = "poll"
                  /\ UNCHANGED <<hasOfflineData, foundProcessing, foundLog>>
             ELSE IF ~fp /\ ~fl
             THEN /\ pcConn' = "poll"
                  /\ hasOfflineData' = FALSE
                  /\ UNCHANGED <<foundProcessing, foundLog>>
             ELSE /\ pcConn' = FirstStep(fp, fl)
                  /\ foundProcessing' = fp
                  /\ foundLog' = fl
                  /\ UNCHANGED hasOfflineData
    /\ linePos' = 0
    /\ depth' = IF pcConn' = "poll" THEN 0 ELSE depth
    /\ UNCHANGED <<drainFrame, offlineLog, processing, published, publishFailures,
                   readOpenFailed>>

\* variant: the log is never staged after the pending file
AfterPendingReturn == "poll"

\* variant: step 2 runs whether or not the listing found the log
AfterPendingAlwaysRename == "drain_rename"

\* step 2 or return, after step 1
AfterPending == IF foundLog THEN "drain_rename" ELSE "poll"

\* LittleFS.open("/processing.txt", FILE_READ)
DrainOpen ==
    /\ phase = "run"
    /\ pcConn = "drain_open"
    /\ \E opened \in BOOLEAN :
         /\ opened \/ ~readOpenFailed
         /\ IF processing # NoFile /\ opened
            THEN /\ pcConn' = "drain_line"
                 /\ linePos' = 1
                 /\ UNCHANGED <<readOpenFailed, depth>>
            ELSE /\ pcConn' = AfterPending
                 /\ linePos' = 0
                 /\ readOpenFailed' = (readOpenFailed \/ processing # NoFile)
                 /\ depth' = IF AfterPending = "poll" THEN 0 ELSE depth
    /\ UNCHANGED <<drainFrame, hasOfflineData, offlineLog, processing,
                   foundProcessing, foundLog, published, publishFailures>>

\* variant: a failed publish breaks out of the loop with allSent still set
AfterFailedLineRemoves == "drain_remove"

\* allSent = false; break; ... else return: a failed line ends the call
AfterFailedLine == "poll"

\* one turn of while (file.available()): publish a line or stop
DrainLine ==
    /\ phase = "run"
    /\ pcConn = "drain_line"
    /\ IF linePos > Len(processing)
       THEN /\ pcConn' = "drain_remove"
            /\ UNCHANGED <<linePos, depth, published, publishFailures>>
       ELSE \E sent \in PublishOutcomes :
              /\ published' = IF sent THEN published \cup {processing[linePos]}
                              ELSE published
              /\ publishFailures' = IF clientConnected /\ ~sent
                                    THEN publishFailures + 1 ELSE publishFailures
              /\ pcConn' = IF sent THEN "drain_line" ELSE AfterFailedLine
              /\ linePos' = IF sent THEN linePos + 1 ELSE 0
              /\ depth' = IF sent THEN depth ELSE 0
    /\ UNCHANGED <<drainFrame, hasOfflineData, offlineLog, processing,
                   foundProcessing, foundLog, readOpenFailed>>

\* allSent: LittleFS.remove("/processing.txt")
DrainRemove ==
    /\ phase = "run"
    /\ pcConn = "drain_remove"
    /\ processing' = NoFile
    /\ pcConn' = AfterPending
    /\ linePos' = 0
    /\ depth' = IF AfterPending = "poll" THEN 0 ELSE depth
    /\ UNCHANGED <<drainFrame, hasOfflineData, offlineLog, foundProcessing, foundLog,
                   published, publishFailures, readOpenFailed>>

\* LittleFS.rename("/offline_log.txt", "/processing.txt") and the
\* recursive call
DrainRename ==
    /\ phase = "run"
    /\ pcConn = "drain_rename"
    /\ processing' = offlineLog
    /\ offlineLog' = NoFile
    /\ depth' = depth + 1
    /\ pcConn' = "drain_entry"
    /\ UNCHANGED <<drainFrame, hasOfflineData, foundProcessing, foundLog, linePos,
                   published, publishFailures, readOpenFailed>>

processOfflineData == DrainList \/ DrainOpen \/ DrainLine \/ DrainRemove \/ DrainRename

NextSpool ==
    \/ setup
    \/ Reboot(1 + MaxSpoolBoots)
    \/ ConnectivityPoll
    \/ LinkDrop
    \/ TelemetryTick
    \/ processOfflineData

SpecSpool == Init /\ [][NextSpool]_vars

\* one whole pass of the loop with WiFi lost and the telemetry block due:
\* the flags are cleared unless the portal is active, then the record is
\* published or logged by the flags; without WiFi there is no session
WifiLostPass ==
    /\ phase = "run"
    /\ pcConn = "poll"
    /\ composed < MaxRecords
    /\ composed' = composed + 1
    /\ clientConnected' = FALSE
    /\ \E portalUp \in BOOLEAN, openOk \in BOOLEAN :
         /\ wifiConnected' = IF portalUp THEN wifiConnected ELSE FALSE
         /\ mqttConnected' = IF portalUp THEN mqttConnected ELSE FALSE
         /\ IF portalUp /\ wifiConnected /\ mqttConnected
            THEN LET sp == flushRamBuffer(ramBuffer, ramBufferCount, offlineLog,
                                          hasOfflineData, openOk)
                 IN  /\ SetSpool(sp)
                     /\ drainStartFiles' = FilesPresent(processing, sp.offlineLog)
                     /\ atDrainStart' = atDrainStart \cup FileRecords(sp.offlineLog)
                                           \cup FileRecords(processing)
                     /\ pcConn' = "drain_entry"
            ELSE /\ SetSpool(logDataOffline(composed + 1, openOk))
                 /\ UNCHANGED <<atDrainStart, drainStartFiles, pcConn>>
    /\ UNCHANGED <<notConnectivity, preferences, bootHist, processing,
                   foundProcessing, foundLog, linePos, depth,
                   published, publishFailures, ramLost, readOpenFailed>>

NextOffline ==
    \/ setup
    \/ ConnectivityPoll
    \/ WifiLostPass
    \/ TelemetryTick
    \/ processOfflineData

SpecOffline == Init /\ [][NextOffline]_vars

\* the command that starts an OTA update
OtaCommand ==
    /\ boots < MaxBoots
    /\ \E ota \in OtaOutcomes : messageHandler([update_url |-> "https"], ota)

NextBoot ==
    \/ setup
    \/ Reboot(MaxBoots)
    \/ ConnectivityPoll
    \/ LinkDrop
    \/ OtaCommand

SpecBoot == Init /\ [][NextBoot]_vars

\* the boot-health model with its scheduling: setup runs to its end, and
\* the connectivity task keeps making passes with WiFi up (it loops over
\* a vTaskDelay); restarts, session drops and commands are the
\* environment's and carry no fairness
SpecAlert ==
    /\ Init /\ [][NextBoot]_vars
    /\ WF_vars(setup)
    /\ WF_vars(ConnectivityPoll /\ wifiConnected')

\* payloads of the boot-verification model
VerifyPayloads == << [soil_dry |-> 30], [mode |-> "MANUAL", pump |-> 1] >>

VerifyCommand ==
    \E i \in DOMAIN VerifyPayloads : messageHandler(VerifyPayloads[i], "HTTP_UPDATE_FAILED")

VerifyTelemetry == composed < MaxVerifyRecords /\ TelemetryTick

NextVerify ==
    \/ setup
    \/ Reboot(MaxVerifyBoots)
    \/ ConnectivityPoll
    \/ LinkDrop
    \/ VerifyCommand
    \/ VerifyTelemetry
    \/ processOfflineData

SpecVerify == Init /\ [][NextVerify]_vars

\* the sensing model: driver reads that succeed or fail, and the AUTO cycle
NextSense ==
    \/ setup \/ ReadAht \/ ReadAhtFault \/ ReadSoil(SoilDryWet)
    \/ ControlCommon \/ ControlAuto

SpecSense == Init /\ [][NextSense]_vars

(* ------------------------------------------------------------------ *)
(* Provisioning: reset button, interface task, portal of the           *)
(* connectivity task                                                   *)
(* ------------------------------------------------------------------ *)

notPortal == <<cfgVars, preferences, modeVars, sensorVars, actuatorVars,
               controlVars, phase, envVars, flagVars, spoolVars, drainVars,
               spoolHist, bootHist, linkVars>>

\* the falling edge of the button, past the 200 ms debounce; a bounce
\* inside the debounce window changes nothing
isrResetButton ==
    /\ phase = "run"
    /\ btnRequest' = TRUE
    /\ everPressed' = TRUE
    /\ UNCHANGED <<reconfigureWiFi, stopPortalRequest, portalRunning, portalActive,
                   pcIface, pcPortal, everStartIntent, notPortal>>

\* if (btnRequest): without a request the pass only redraws the display
IfaceTest ==
    /\ phase = "run"
    /\ pcIface = "test"
    /\ btnRequest
    /\ pcIface' = "clear"
    /\ UNCHANGED <<btnRequest, reconfigureWiFi, stopPortalRequest, portalRunning,
                   portalActive, pcPortal, everPressed, everStartIntent, notPortal>>

\* btnRequest = false
IfaceClear ==
    /\ phase = "run"
    /\ pcIface = "clear"
    /\ btnRequest' = FALSE
    /\ pcIface' = "decide"
    /\ UNCHANGED <<reconfigureWiFi, stopPortalRequest, portalRunning, portalActive,
                   pcPortal, everPressed, everStartIntent, notPortal>>

\* the intent the consumed request raises
IfaceAlwaysStart(running) == [stop |-> FALSE, start |-> TRUE]

IfaceIntent(running) == [stop |-> running, start |-> ~running]

\* if (portalRunning) stopPortalRequest = true; else reconfigureWiFi = true
IfaceDecide ==
    /\ phase = "run"
    /\ pcIface = "decide"
    /\ stopPortalRequest' = (stopPortalRequest \/ IfaceIntent(portalRunning).stop)
    /\ reconfigureWiFi' = (reconfigureWiFi \/ IfaceIntent(portalRunning).start)
    /\ everStartIntent' = (everStartIntent \/ IfaceIntent(portalRunning).start)
    /\ pcIface' = "test"
    /\ UNCHANGED <<btnRequest, portalRunning, portalActive, pcPortal, everPressed,
                   notPortal>>

TaskInterface == IfaceTest \/ IfaceClear \/ IfaceDecide

\* the portal a failed autoConnect opens: none, the automatic portal is
\* disabled before the attempt
AutoPortalDefault(connected) == ~connected

AutoPortal(connected) == FALSE

\* the connection attempt with the saved credentials, before the loop
ConnStart ==
    /\ phase = "run"
    /\ pcPortal = "start"
    /\ \E connected \in BOOLEAN :
          /\ wifiConnected' = (wifiConnected \/ connected)
          /\ portalActive' = AutoPortal(connected)
    /\ portalRunning' = FALSE
    /\ pcPortal' = "process"
    /\ UNCHANGED <<btnRequest, reconfigureWiFi, stopPortalRequest, pcIface,
                   everPressed, everStartIntent>>
    /\ UNCHANGED <<cfgVars, preferences, modeVars, sensorVars, actuatorVars,
                   controlVars, phase, envVars, mqttConnected, connWdt,
                   spoolVars, drainVars, spoolHist, bootHist, linkVars>>

\* wm.process(): an open portal may end (timeout, credentials saved);
\* portalRunning = wm.getConfigPortalActive()
ConnProcess ==
    /\ phase = "run"
    /\ pcPortal = "process"
    /\ \E ended \in BOOLEAN : portalActive' = (portalActive /\ ~ended)
    /\ portalRunning' = portalActive'
    /\ pcPortal' = "reconfigure"
    /\ UNCHANGED <<btnRequest, reconfigureWiFi, stopPortalRequest, pcIface,
                   everPressed, everStartIntent, notPortal>>

\* if (reconfigureWiFi): startConfigPortal, whose callback sets portalRunning
ConnReconfigure ==
    /\ phase = "run"
    /\ pcPortal = "reconfigure"
    /\ IF reconfigureWiFi
       THEN /\ portalActive' = TRUE
            /\ portalRunning' = TRUE
            /\ pcPortal' = "reconfigure_clear"
       ELSE /\ pcPortal' = "stop"
            /\ UNCHANGED <<portalActive, portalRunning>>
    /\ UNCHANGED <<btnRequest, reconfigureWiFi, stopPortalRequest, pcIface,
                   everPressed, everStartIntent, notPortal>>

\* reconfigureWiFi = false
ConnReconfigureClear ==
    /\ phase = "run"
    /\ pcPortal = "reconfigure_clear"
    /\ reconfigureWiFi' = FALSE
    /\ pcPortal' = "stop"
    /\ UNCHANGED <<btnRequest, stopPortalRequest, portalRunning, portalActive,
                   pcIface, everPressed, everStartIntent, notPortal>>

\* if (stopPortalRequest): stopConfigPortal; portalRunning follows on the
\* next pass
ConnStop ==
    /\ phase = "run"
    /\ pcPortal = "stop"
    /\ IF stopPortalRequest
       THEN /\ portalActive' = FALSE
            /\ pcPortal' = "stop_clear"
       ELSE /\ pcPortal' = "rest"
            /\ UNCHANGED portalActive
    /\ UNCHANGED <<btnRequest, reconfigureWiFi, stopPortalRequest, portalRunning,
                   pcIface, everPressed, everStartIntent, notPortal>>

\* stopPortalRequest = false, then the 100 ms delay
ConnStopClear ==
    /\ phase = "run"
    /\ pcPortal = "stop_clear"
    /\ stopPortalRequest' = FALSE
    /\ pcPortal' = "rest"
    /\ UNCHANGED <<btnRequest, reconfigureWiFi, portalRunning, portalActive,
                   pcIface, everPressed, everStartIntent, notPortal>>

\* the cloud and telemetry blocks of the pass, then the next pass
ConnRest ==
    /\ phase = "run"
    /\ pcPortal = "rest"
    /\ pcPortal' = "process"
    /\ UNCHANGED <<btnRequest, reconfigureWiFi, stopPortalRequest, portalRunning,
                   portalActive, pcIface, everPressed, everStartIntent, notPortal>>

ConnLoop ==
    \/ ConnProcess \/ ConnReconfigure \/ ConnReconfigureClear
    \/ ConnStop \/ ConnStopClear \/ ConnRest

\* a wet reading (75 %): the pump stays off
SoilWet == {2276}

\* the provisioning model: button, interface, portal, sensing and control
NextPortal ==
    \/ setup \/ isrResetButton \/ TaskInterface \/ ConnStart \/ ConnLoop
    \/ ReadSoil(SoilWet) \/ ControlCommon \/ ControlAuto

SpecPortal == Init /\ [][NextPortal]_vars

\* the intent model: the ISR, the interface task and the connectivity task,
\* each of which is scheduled again and again (both tasks loop over a
\* vTaskDelay and never wait on each other)
NextButton == setup \/ isrResetButton \/ TaskInterface \/ ConnStart \/ ConnLoop

SpecButton ==
    /\ Init /\ [][NextButton]_vars
    /\ WF_vars(setup)
    /\ WF_vars(TaskInterface)
    /\ WF_vars(ConnStart \/ ConnLoop)

(* ------------------------------------------------------------------ *)
(* Soil calibration                                                    *)
(* ------------------------------------------------------------------ *)

\* a reversed calibration pair (water above air) and the default pair
CalPayloads == <<
    [cal_air |-> 1000, cal_water |-> 3000],
    [cal_air |-> 4095, cal_water |-> 1670] >>

CalCommand ==
    \E i \in DOMAIN CalPayloads : messageHandler(CalPayloads[i], "HTTP_UPDATE_FAILED")

\* raw readings below, between and above the reversed pair
CalReadings == {500, 2000, 3500}

ReadCal == \E rawADC \in CalReadings : ReadSoil({rawADC})

NextCal == setup \/ CalCommand \/ ReadCal \/ ControlCommon \/ ControlAuto

SpecCal == Init /\ [][NextCal]_vars

(* ------------------------------------------------------------------ *)
(* Flash writes of the configuration                                   *)
(* ------------------------------------------------------------------ *)

\* the configuration in RAM, by preference key
ConfigCur ==
    [temp_min |-> TEMP_MIN_NIGHT, temp_max |-> TEMP_MAX_DAY, hum_max |-> HUM_MAX,
     soil_dry |-> SOIL_DRY, soil_wet |-> SOIL_WET,
     tank_empty |-> TANK_EMPTY_DIST, tank_full |-> TANK_FULL_DIST,
     cal_air |-> AIR_VAL, cal_water |-> WATER_VAL]

\* the value each field's block leaves in RAM
ConfigNew(p) ==
    [temp_min |-> FloatField(TEMP_MIN_NIGHT, p, "temp_min", "min_temp"),
     temp_max |-> FloatField(TEMP_MAX_DAY, p, "temp_max", "max_temp"),
     hum_max |-> FloatField(HUM_MAX, p, "hum_max", "max_hum"),
     soil_dry |-> PercentField(SOIL_DRY, p, "soil_dry"),
     soil_wet |-> PercentField(SOIL_WET, p, "soil_wet"),
     tank_empty |-> DistField(TANK_EMPTY_DIST, p, "tank_empty_dist"),
     tank_full |-> DistField(TANK_FULL_DIST, p, "tank_full_dist"),
     cal_air |-> CalField(AIR_VAL, p, "cal_air"),
     cal_water |-> CalField(WATER_VAL, p, "cal_water")]

\* the keys for which the handler calls putFloat / putInt: the put is in
\* the same block as the assignment to the global
WrittenKeys(p) == {k \in DOMAIN ConfigCur : ConfigNew(p)[k] # ConfigCur[k]}

\* payloads of the flash-write model: new values, values within 0.1 of the
\* stored or default one, a default sent again, an out-of-range value
WearPayloads == <<
    [temp_min |-> 250],
    [temp_min |-> 251],
    [min_temp |-> 201],
    [soil_dry |-> 30],
    [soil_dry |-> 40],
    [cal_air |-> 4000],
    [temp_max |-> 1500],
    [hum_max |-> 700, soil_wet |-> 60] >>

WearCommand ==
    \E i \in DOMAIN WearPayloads : messageHandler(WearPayloads[i], "HTTP_UPDATE_FAILED")

MaxWearBoots == 2

NextWear == setup \/ Reboot(MaxWearBoots) \/ WearCommand

SpecWear == Init /\ [][NextWear]_vars

(* ------------------------------------------------------------------ *)
(* Payloads with an out-of-range field                                 *)
(* ------------------------------------------------------------------ *)

\* each of the first five payloads carries one out-of-range field next to
\* valid ones; the others move the state the first five start from
RejectPayloads == <<
    [temp_min |-> 1500, soil_dry |-> 30],
    [soil_wet |-> 101, temp_max |-> 320, mode |-> "MANUAL", pump |-> 1],
    [tank_full_dist |-> 0, max_hum |-> 700, mode |-> "AUTO"],
    [tank_empty_dist |-> 1000, soil_dry |-> 50, mode |-> "1", fan |-> 1, heater |-> 0],
    [hum_max |-> -10, tank_full_dist |-> 8, cal_air |-> 4000],
    [temp_min |-> 180, soil_wet |-> 75],
    [mode |-> "MANUAL", pump |-> 0, fan |-> 0, heater |-> 1],
    [mode |-> "AUTO"] >>

RejectCommand ==
    \E i \in DOMAIN RejectPayloads : messageHandler(RejectPayloads[i], "HTTP_UPDATE_FAILED")

NextReject == setup \/ RejectCommand

SpecReject == Init /\ [][NextReject]_vars

(* ------------------------------------------------------------------ *)
(* Control next to the connectivity task                               *)
(* ------------------------------------------------------------------ *)

\* an update command whose download fails
CloudOta == messageHandler([update_url |-> "https"], "HTTP_UPDATE_FAILED")

\* environment of the model: in one boot either the button is pressed,
\* once to open the portal and again to close it, or telemetry comes due
CloudPress ==
    /\ composed = 0
    /\ ~everPressed \/ (portalRunning /\ ~btnRequest /\ ~stopPortalRequest
                            /\ pcIface = "test")
    /\ isrResetButton

CloudTelemetry == ~everPressed /\ VerifyTelemetry

\* the connectivity task is one thread: the cloud and telemetry blocks run
\* after the provisioning part of the pass, and the pass ends when the drain
\* has returned
CloudBlocks ==
    /\ pcPortal = "rest"
    /\ \/ ConnectivityPoll \/ CloudTelemetry \/ processOfflineData \/ CloudOta

CloudProvisioning ==
    \/ ConnStart \/ ConnProcess \/ ConnReconfigure \/ ConnReconfigureClear
    \/ ConnStop \/ ConnStopClear
    \/ (pcConn = "poll" /\ ConnRest)

NextCloud ==
    \/ setup \/ CloudBlocks \/ CloudPress \/ TaskInterface \/ CloudProvisioning
    \/ ReadSoil(SoilWet) \/ ControlCommon \/ ControlAuto

SpecCloud == Init /\ [][NextCloud]_vars

(* ------------------------------------------------------------------ *)
(* Climate thresholds                                                  *)
(* ------------------------------------------------------------------ *)

\* payloads of the climate model: each threshold above and below the
\* reading of 35.0 degrees and 80.0 %
ClimatePayloads == <<
    [temp_max |-> 400], [temp_max |-> 300],
    [hum_max |-> 900], [hum_max |-> 750],
    [temp_min |-> 360], [temp_min |-> 200] >>

ClimateCommand ==
    \E i \in DOMAIN ClimatePayloads :
        messageHandler(ClimatePayloads[i], "HTTP_UPDATE_FAILED")

NextClimate == setup \/ ReadAht \/ ControlCommon \/ ControlAuto \/ ClimateCommand

SpecClimate == Init /\ [][NextClimate]_vars

(* ------------------------------------------------------------------ *)
(* Connectivity task: WiFi status, reconnect, clock                    *)
(* ------------------------------------------------------------------ *)

\* variant: no background reconnect
RetryNever(due) == FALSE

\* WiFi.reconnect() is called when the 30 s timer is due and the portal is
\* not running
RetryIssued(due) == due /\ ~portalRunning

\* one pass of the loop up to the telemetry block, on the radio's and the
\* clock's state; retryDue: 30 s have passed since the last reconnect
CloudPass(retryDue) ==
    /\ phase = "run"
    /\ pcConn = "poll"
    /\ \E connect \in ConnectOutcomes, alertOk \in BOOLEAN :
         /\ alertOk \/ alertFailures < MaxPublishFailures
         \* inputs the pass does not read are fixed, not enumerated
         /\ (~staConnected \/ clientConnected) => connect = "skip"
         /\ connect # "ok" => alertOk
         /\ IF staConnected
            THEN /\ wifiConnected' = TRUE
                 /\ ntpStarted' = (ntpStarted \/ ~timeValid)
                 /\ connectBeforeTime' =
                       (connectBeforeTime \/ (connect # "skip" /\ ~timeValid))
                 /\ UNCHANGED <<reconnectPending, retryParity>>
                 /\ IF connect = "ok"
                    THEN LET verified == VerifiedStore(preferences)
                         IN  /\ mqttConnected' = TRUE
                             /\ clientConnected' = TRUE
                             /\ preferences' = AlertWrites(verified, alertOk)
                             /\ unverifiedBoots' = 0
                             /\ alertsSinceRollback' =
                                   IF AlertDue(verified) /\ alertOk
                                   THEN alertsSinceRollback + 1
                                   ELSE alertsSinceRollback
                             /\ alertFailures' =
                                   IF AlertDue(verified) /\ ~alertOk
                                   THEN alertFailures + 1 ELSE alertFailures
                    ELSE /\ mqttConnected' = clientConnected
                         /\ UNCHANGED <<clientConnected, preferences, unverifiedBoots,
                                        alertsSinceRollback, alertFailures>>
            ELSE /\ wifiConnected' = IF portalRunning THEN wifiConnected ELSE FALSE
                 /\ mqttConnected' = IF portalRunning THEN mqttConnected ELSE FALSE
                 /\ reconnectPending' = (reconnectPending \/ RetryIssued(retryDue))
                 /\ retryParity' = IF RetryIssued(retryDue) THEN ~retryParity
                                   ELSE retryParity
                 /\ UNCHANGED <<ntpStarted, connectBeforeTime, clientConnected,
                                preferences, unverifiedBoots, alertsSinceRollback,
                                alertFailures>>
    /\ UNCHANGED <<networkUp, staConnected, timeValid, buttonVars>>
    /\ UNCHANGED <<cfgVars, modeVars, sensorVars, actuatorVars, controlVars,
                   phase, canRollBack, connWdt, spoolVars, drainVars, spoolHist,
                   boots, rollbacks, lastBoot, rebootAt>>

linkFrame == <<cfgVars, preferences, modeVars, sensorVars, actuatorVars,
               controlVars, phase, envVars, flagVars, spoolVars, drainVars,
               spoolHist, bootHist, buttonVars, retryParity, connectBeforeTime>>

\* the access point appears or disappears; the association goes with it
NetworkChange ==
    /\ phase = "run"
    /\ networkUp' = ~networkUp
    /\ staConnected' = (staConnected /\ ~networkUp)
    /\ UNCHANGED <<reconnectPending, timeValid, ntpStarted, linkFrame>>

\* an association attempt (autoConnect, WiFi.reconnect) ends: with the
\* access point in range the station is connected
Associate ==
    /\ phase = "run"
    /\ reconnectPending
    /\ reconnectPending' = FALSE
    /\ staConnected' = (staConnected \/ networkUp)
    /\ UNCHANGED <<networkUp, timeValid, ntpStarted, linkFrame>>

\* SNTP, started by configTime, sets the clock
TimeSync ==
    /\ phase = "run"
    /\ ntpStarted /\ staConnected /\ ~timeValid
    /\ timeValid' = TRUE
    /\ UNCHANGED <<networkUp, staConnected, reconnectPending, ntpStarted, linkFrame>>

\* the link model: passes with the retry timer due or not, the radio and
\* the clock; the loop runs again and again, the timer comes due, and a
\* started association attempt ends
NextLink ==
    \/ setup \/ CloudPass(TRUE) \/ CloudPass(FALSE)
    \/ NetworkChange \/ Associate \/ TimeSync \/ LinkDrop

SpecLink ==
    /\ Init /\ [][NextLink]_vars
    /\ WF_vars(setup)
    /\ WF_vars(CloudPass(TRUE))
    /\ WF_vars(Associate)

(* ------------------------------------------------------------------ *)
(* Empty input ranges of the linear maps                               *)
(* ------------------------------------------------------------------ *)

\* payloads that make a calibration point or a tank distance equal to its
\* partner (cal_water is 1670 and tank_full_dist is 5 by default), and
\* the default pairs
DivPayloads == <<
    [cal_air |-> 1670],
    [tank_empty_dist |-> 5],
    [cal_air |-> 4095, tank_empty_dist |-> 25] >>

DivCommand ==
    \E i \in DOMAIN DivPayloads : messageHandler(DivPayloads[i], "HTTP_UPDATE_FAILED")

MaxDivBoots == 3

\* map() over an empty input range divides by in_max - in_min = 0: a
\* core that tests for it returns -1 (the Map operator), one that does
\* not traps with an integer divide by zero and the chip restarts
DivTrap ==
    /\ \/ AIR_VAL = WATER_VAL /\ ControlBlocked
       \/ TANK_EMPTY_DIST = TANK_FULL_DIST /\ pcControl = "level"
    /\ Reboot(MaxDivBoots)

NextDiv == setup \/ DivCommand \/ ReadCal \/ ControlCommon \/ ControlAuto \/ DivTrap

SpecDiv == Init /\ [][NextDiv]_vars

(* ------------------------------------------------------------------ *)
(* Claims on command dispatch (SpecCmd)                                *)
(* ------------------------------------------------------------------ *)

PercentOk(x) == x >= 0 /\ x <= 100
TenthsOk(x) == x >= 0 /\ x <= 1000

\* C1: after any sequence of command payloads the configuration, in RAM
\* and as persisted, satisfies temp_min < temp_max, soil_dry < soil_wet,
\* tank_full_dist < tank_empty_dist and every percentage is in [0,100]
\* (a payload that would break a relation changes nothing).
C1_ConfigValid ==
    phase = "run" =>
        /\ TEMP_MIN_NIGHT < TEMP_MAX_DAY
        /\ SOIL_DRY < SOIL_WET
        /\ TANK_FULL_DIST < TANK_EMPTY_DIST
        /\ TenthsOk(TEMP_MIN_NIGHT) /\ TenthsOk(TEMP_MAX_DAY) /\ TenthsOk(HUM_MAX)
        /\ PercentOk(SOIL_DRY) /\ PercentOk(SOIL_WET)
        /\ PrefGet(preferences, "temp_min", 200) < PrefGet(preferences, "temp_max", 300)
        /\ PrefGet(preferences, "soil_dry", 40) < PrefGet(preferences, "soil_wet", 70)
        /\ PrefGet(preferences, "tank_full", 5) < PrefGet(preferences, "tank_empty", 25)

OverrideKeys == {"pump", "fan", "heater"}

Latch(k) ==
    CASE k = "pump" -> manualPump
      [] k = "fan" -> manualFan
      [] k = "heater" -> manualHeater

AllLatchesClear == ~manualPump /\ ~manualFan /\ ~manualHeater

\* C10: an override field changes its latch only if the mode is MANUAL
\* after the mode field of the same payload has been applied, and then the
\* latch takes the field's value; {"mode":"MANUAL","pump":1} in AUTO
\* latches the pump ON, {"pump":1} in AUTO and {"mode":"AUTO","pump":1} in
\* MANUAL leave all overrides false.
C10_OverrideGating ==
    [][\A i \in DOMAIN CmdPayloads :
         LET p == CmdPayloads[i]
         IN  messageHandler(p, "HTTP_UPDATE_FAILED") =>
               /\ \A k \in OverrideKeys :
                    /\ Latch(k)' # Latch(k) =>
                          \/ Has(p, k) /\ manualMode'
                          \/ Has(p, "mode") /\ IsAutoWord(p["mode"]) /\ ~Latch(k)'
                    /\ (Has(p, k) /\ manualMode') => (Latch(k)' = (p[k] = 1))
                    /\ (Has(p, k) /\ ~manualMode') => ~Latch(k)'
               /\ (p = [mode |-> "MANUAL", pump |-> 1] /\ ~manualMode)
                      => (manualMode' /\ manualPump')
               /\ (p = [pump |-> 1] /\ ~manualMode)
                      => (~manualMode' /\ AllLatchesClear')
               /\ (p = [mode |-> "AUTO", pump |-> 1] /\ manualMode)
                      => (~manualMode' /\ AllLatchesClear')
      ]_vars

\* the pump override latched from AUTO by one payload carrying the mode
\* and the override
C10_Witness ==
    /\ phase = "run" /\ manualMode /\ manualPump /\ ~manualFan /\ ~manualHeater

(* ------------------------------------------------------------------ *)
(* Claims on the control task (SpecCtl, SpecHyst)                      *)
(* ------------------------------------------------------------------ *)

CycleEnd(mode) == phase = "run" /\ pcControl = "done" /\ cycleMode = mode

\* C2: at the end of every control cycle run in AUTO in which has_water
\* is false, the pump status and the pump relay are OFF, whatever the
\* soil reading, the thresholds and the previous pump state.
C2_DryRunInterlock ==
    (CycleEnd("AUTO") /\ ~tankHasWater) => (~pumpStatus /\ ~pinPump)

\* an AUTO cycle that found the tank empty by distance, with dry soil and
\* the pump running before
C2_Witness ==
    /\ CycleEnd("AUTO") /\ ~tankHasWater /\ ~timedOut
    /\ pumpBefore /\ soilAtOn < SOIL_DRY /\ ~pumpStatus

\* C7: in AUTO the pump goes OFF->ON only in a step that finds
\* soil < soil_dry with water in the tank, goes ON->OFF only in a step
\* that finds soil > soil_wet or no water, and otherwise keeps its state;
\* with soil_dry = 40, soil_wet = 70 and water, soil 50,35,55,75,60 gives
\* pump OFF,ON,ON,OFF,OFF.
C7_Hysteresis ==
    /\ [][(phase = "run" /\ phase' = "run") =>
            /\ (~pumpStatus /\ pumpStatus') =>
                   (soilMoisture < SOIL_DRY /\ tankHasWater /\ pinPump')
            /\ (pumpStatus /\ ~pumpStatus') =>
                   ((soilMoisture > SOIL_WET \/ ~tankHasWater) /\ ~pinPump')
         ]_vars
    /\ []((CycleEnd("AUTO") /\ scenario \in 1..5) =>
              (pumpStatus = ScenarioPump[scenario] /\ pinPump = pumpStatus))

\* the whole scenario has run: five consecutive cycles read 50,35,55,75,60
C7_Witness == CycleEnd("AUTO") /\ scenario = 5 /\ ~pumpStatus

\* C8: when the echo times out the cycle uses distance = tank_empty_dist,
\* so has_water is false and the tank level is 0 %, and in AUTO the pump
\* is OFF at the end of the cycle.
C8_TimeoutFailSafe ==
    (phase = "run" /\ pcControl = "done" /\ timedOut /\ ~cmdInCycle) =>
        /\ ~tankHasWater
        /\ waterTankLevel = 0
        /\ cycleMode = "AUTO" => (~pumpStatus /\ ~pinPump)

OutputsFollowLatches ==
    /\ pumpStatus = manualPump /\ pinPump = manualPump
    /\ fanStatus = manualFan /\ pinFan = manualFan
    /\ heaterStatus = manualHeater /\ pinHeater = manualHeater

\* C9 as stated: at the end of every control cycle run in MANUAL, status
\* and relay of pump, fan and heater equal the latched overrides.
C9_ManualLiteral == CycleEnd("MANUAL") => OutputsFollowLatches

\* C9 amended: at the end of every MANUAL cycle during which no command
\* was dispatched, status and relay of pump, fan and heater equal the
\* latched overrides, whatever the sensors and has_water say; and the
\* latched pump stays ON until a command sets mode AUTO or pump 0, or the
\* node restarts.
C9_ManualFollowsOverrides ==
    /\ []((CycleEnd("MANUAL") /\ ~cmdInCycle) => OutputsFollowLatches)
    /\ [][(manualMode /\ manualPump /\ ~(manualMode' /\ manualPump')) =>
            \/ phase = "boot" /\ boots' = boots + 1
            \/ \E i \in DOMAIN ManualPayloads :
                  LET p == ManualPayloads[i]
                  IN  /\ messageHandler(p, "HTTP_UPDATE_FAILED")
                      /\ \/ Has(p, "mode") /\ IsAutoWord(p["mode"])
                         \/ Has(p, "pump") /\ p["pump"] # 1
         ]_vars

\* a MANUAL cycle that ran the pump with wet soil and an empty tank
C9_Witness ==
    /\ CycleEnd("MANUAL") /\ ~cmdInCycle
    /\ manualPump /\ pumpStatus /\ pinPump
    /\ soilMoisture > SOIL_WET /\ ~tankHasWater

(* ------------------------------------------------------------------ *)
(* Claims on the telemetry spool (SpecSpool)                           *)
(* ------------------------------------------------------------------ *)

Places(r) ==
    Cardinality({f \in {"ram", "log", "processing"} :
                    \/ f = "ram" /\ r \in Range(ramBuffer)
                    \/ f = "log" /\ r \in FileRecords(offlineLog)
                    \/ f = "processing" /\ r \in FileRecords(processing)})

\* C3: every telemetry record composed so far has been published or is in
\* exactly one of the RAM batch, /offline_log.txt and /processing.txt,
\* and no record is in two of them.
C3_TelemetryDurability ==
    phase = "run" =>
        \A r \in 1..composed :
            /\ r \in published \/ Places(r) = 1
            /\ Places(r) <= 1

OnDisk == FileRecords(offlineLog) \cup FileRecords(processing)

\* C4: with reboots at any step of processOfflineData, every record that
\* was in /offline_log.txt or /processing.txt when a drain started is
\* still in one of the two files or has been published.
C4_CrashSafeDrain ==
    ~readOpenFailed => atDrainStart \subseteq (OnDisk \cup published)

\* a reboot between two publishes of a drain, after which the next drain
\* delivered every spooled record and removed the file
C4_Witness ==
    /\ phase = "run" /\ rebootAt = "drain_line" /\ ~readOpenFailed
    /\ Cardinality(atDrainStart) >= 2
    /\ atDrainStart \subseteq published
    /\ OnDisk = {}

(* ------------------------------------------------------------------ *)
(* Claims on the boot-health protocol (SpecBoot)                       *)
(* ------------------------------------------------------------------ *)

CrashCount == PrefGet(preferences, "crash_count", 0)
RbHappened == PrefGet(preferences, "rb_happened", FALSE)

\* C5: over consecutive boots without a successful MQTT connection the
\* persisted crash_count after boot k is k for k = 1, 2, 3; a boot that
\* reads crash_count >= 3 with a rollback slot available sets rb_happened,
\* resets crash_count to 0 and restarts, without incrementing the counter
\* and without starting the tasks.
C5_RollbackAfterThree ==
    /\ []((phase = "run" /\ unverifiedBoots \in 1..3) => CrashCount = unverifiedBoots)
    /\ [][(phase = "boot" /\ boots' = boots + 1 /\ CrashCount >= 3 /\ canRollBack) =>
            /\ RbHappened' /\ CrashCount' = 0
            /\ rollbacks' = rollbacks + 1
            /\ phase' = "boot" /\ ~connWdt'
            /\ pcControl' = "measure" /\ pcConn' = "poll"
         ]_vars

\* the fourth unverified boot has rolled back
C5_Witness ==
    /\ phase = "boot" /\ lastBoot = "rollback" /\ rollbacks = 1
    /\ RbHappened /\ CrashCount = 0 /\ boots >= 4

LowerCase ==
    [w \in ModeWords |->
        CASE w \in {"MANUAL", "manual", "Manual"} -> "manual"
          [] w \in {"AUTO", "auto", "Auto"} -> "auto"
          [] OTHER -> w]

\* C11: a mode word that is "manual" in any capitalisation, or "1",
\* switches to MANUAL; "auto" in any capitalisation, or "0", switches to
\* AUTO and clears the overrides; any other word leaves the mode and the
\* overrides unchanged.
C11_ModeCaseInsensitive ==
    [][\A w \in ModeWords :
         messageHandler([mode |-> w], "HTTP_UPDATE_FAILED") =>
            CASE LowerCase[w] \in {"manual", "1"} ->
                    manualMode' /\ UNCHANGED <<manualPump, manualFan, manualHeater>>
              [] LowerCase[w] \in {"auto", "0"} ->
                    ~manualMode' /\ AllLatchesClear'
              [] OTHER -> UNCHANGED modeVars
      ]_vars

\* C12: a boot that read crash_count >= 3 with no rollback slot leaves the
\* persisted crash_count at the reset value 0 (no increment on such a
\* boot), for as long as nothing verifies the boot.
C12_NoSlotReset ==
    (phase = "run" /\ lastBoot = "noslot" /\ unverifiedBoots > 0) => CrashCount = 0

ConnectSucceeds == ~clientConnected /\ clientConnected'

DrainReturns == phase = "run" /\ pcConn = "drain_remove" /\ pcConn' = "poll"

\* C14: spool files on disk are never skipped by the entry test, and a
\* drain invocation in which every publish is acknowledged (it returns
\* after the last remove) has published every line that was on disk and
\* leaves neither /processing.txt nor /offline_log.txt.
C14_DrainCompletes ==
    /\ [](OnDisk # {} => hasOfflineData)
    /\ [][(DrainReturns /\ ~readOpenFailed) =>
            (/\ processing' = NoFile /\ offlineLog' = NoFile
             /\ atDrainStart \subseteq published')]_vars

\* an invocation that started with both files has returned with every
\* line published and no file left
C14_Witness ==
    /\ phase = "run" /\ pcConn = "poll" /\ drainStartFiles = "both"
    /\ ~readOpenFailed
    /\ processing = NoFile /\ offlineLog = NoFile
    /\ Cardinality(atDrainStart) >= 2 /\ atDrainStart \subseteq published

\* C15: after a drain pass that stopped at a failed publish (no reboot
\* in the run), /processing.txt holds no record that has already been
\* published, so a retry does not publish it again.
C15_PublishedRemoved ==
    (phase = "run" /\ pcConn = "poll" /\ boots = 1 /\ processing # NoFile) =>
        FileRecords(processing) \cap published = {}

(* ------------------------------------------------------------------ *)
(* Claims on offline buffering (SpecOffline)                           *)
(* ------------------------------------------------------------------ *)

Composes == phase = "run" /\ composed' = composed + 1

\* C16: a record composed while there is no MQTT session (WiFi lost with
\* the portal active included) goes to the RAM batch, or with the full
\* batch to /offline_log.txt, and is not handed to publish.
C16_OfflineBuffering ==
    [][(Composes /\ ~clientConnected') =>
          (composed' \in Range(ramBuffer') \cup FileRecords(offlineLog'))]_vars

(* ------------------------------------------------------------------ *)
(* Claims on the OTA path (SpecBoot)                                   *)
(* ------------------------------------------------------------------ *)

\* C17: whenever the tasks run and no download is in progress (that is,
\* after every OTA attempt that returned without a restart), the
\* connectivity task is registered with the watchdog.
C17_WatchdogRearmed == phase = "run" => connWdt

\* the sensing, control and interface tasks have a step to take
TasksRun ==
    /\ ENABLED (ControlCommon \/ ControlAuto)
    /\ ControlBlocked => ENABLED ReadSoil(SoilWet)
    /\ (btnRequest \/ pcIface # "test") => ENABLED TaskInterface

PortalOpens == (~portalActive /\ portalActive') \/ (~portalRunning /\ portalRunning')

C18_Witness ==
    /\ phase = "run" /\ pcPortal = "rest" /\ ~wifiConnected
    /\ ~portalActive /\ ~portalRunning /\ ~everPressed
    /\ pcControl = "delay" /\ TasksRun

IfaceConsumes == phase = "run" /\ pcIface = "decide" /\ pcIface' = "test"

\* C19: a consumed button request raises exactly one intent, stop-portal
\* if portal_active is true at that moment and start-reconfiguration
\* otherwise, and no other step raises an intent; the interface task always
\* has its next step to take; and every raised intent is later cleared by
\* the connectivity task.
C19_ButtonIntents ==
    /\ [][ /\ IfaceConsumes =>
                  IF portalRunning
                  THEN stopPortalRequest' /\ reconfigureWiFi' = reconfigureWiFi
                  ELSE reconfigureWiFi' /\ stopPortalRequest' = stopPortalRequest
           /\ ((~reconfigureWiFi /\ reconfigureWiFi')
                  \/ (~stopPortalRequest /\ stopPortalRequest')) => IfaceConsumes
           /\ ((reconfigureWiFi /\ ~reconfigureWiFi')
                  \/ (stopPortalRequest /\ ~stopPortalRequest')) =>
                  pcPortal \in {"reconfigure_clear", "stop_clear"}
           /\ (phase = "run" /\ (btnRequest \/ pcIface # "test")) =>
                  ENABLED TaskInterface ]_vars
    /\ (reconfigureWiFi ~> ~reconfigureWiFi)
    /\ (stopPortalRequest ~> ~stopPortalRequest)
    /\ (btnRequest ~> ~btnRequest)

\* both intents raised and not yet handled
C19_Witness == reconfigureWiFi /\ stopPortalRequest /\ btnRequest

\* C20: the shared temperature and humidity always hold the result of a
\* successful driver read (or their initial zero before the first one),
\* whatever reads failed in between.
C20_SensorRetained ==
    phase = "run" => <<currentTemp, currentHum>> \in AhtReadings \cup {<<0, 0>>}

Min(a, b) == IF a < b THEN a ELSE b
Max(a, b) == IF a > b THEN a ELSE b

\* the linear map of the raw value clamped between the two calibration
\* points, air at 0 % and water at 100 %
SymmetricPercent(rawADC, air, water) ==
    Map(Constrain(rawADC, Min(air, water), Max(air, water)), air, water, 0, 100)

\* C21: for every raw reading and every stored calibration pair, reversed
\* or not, the soil percentage a sensing pass stores is the linear map of
\* the reading clamped between the two calibration points.
C21_SoilMapSymmetric ==
    [][ \A rawADC \in CalReadings :
            ReadSoil({rawADC}) =>
                soilMoisture' = SymmetricPercent(rawADC, AIR_VAL, WATER_VAL) ]_vars

\* the payload fields that carry each preference key
PayloadNames ==
    [temp_min |-> {"temp_min", "min_temp"}, temp_max |-> {"temp_max", "max_temp"},
     hum_max |-> {"hum_max", "max_hum"}, soil_dry |-> {"soil_dry"},
     soil_wet |-> {"soil_wet"}, tank_empty |-> {"tank_empty_dist"},
     tank_full |-> {"tank_full_dist"}, cal_air |-> {"cal_air"},
     cal_water |-> {"cal_water"}]

\* the compiled-in defaults setup() loads for absent keys
ConfigDefault ==
    [temp_min |-> 200, temp_max |-> 300, hum_max |-> 750, soil_dry |-> 40,
     soil_wet |-> 70, tank_empty |-> 25, tank_full |-> 5, cal_air |-> 4095,
     cal_water |-> 1670]

\* the stored value of a key, or its compiled-in default
ConfigStored(k) == PrefGet(preferences, k, ConfigDefault[k])

\* 0.1 for the float setpoints, in tenths
Tolerance(k) == IF k \in {"temp_min", "temp_max", "hum_max"} THEN 1 ELSE 0

KeyState(store, k) == IF k \in DOMAIN store THEN <<store[k]>> ELSE <<>>

InRange(k, v) ==
    IF k \in {"temp_min", "temp_max", "hum_max"} THEN v >= 0 /\ v <= 1000
    ELSE IF k \in {"soil_dry", "soil_wet"} THEN v >= 0 /\ v <= 100
    ELSE IF k \in {"tank_empty", "tank_full"} THEN v > 0 /\ v < 1000
    ELSE TRUE

\* the payload has an out-of-range configuration field
HasInvalid(p) ==
    \E k \in DOMAIN ConfigCur : \E f \in PayloadNames[k] \cap DOMAIN p : ~InRange(k, p[f])

\* C23: in a payload with an out-of-range configuration field, that field
\* leaves its value in RAM and in the store unchanged, every in-range
\* field of the payload is applied in RAM and in the store (to within the
\* 0.1 tolerance of the float setpoints), the mode field is applied, and
\* the override fields are applied when the mode after the payload is
\* MANUAL.
C23_PerFieldRejection ==
    [][ \A i \in DOMAIN RejectPayloads :
          (HasInvalid(RejectPayloads[i])
              /\ messageHandler(RejectPayloads[i], "HTTP_UPDATE_FAILED")) =>
            LET p == RejectPayloads[i] IN
            /\ \A k \in DOMAIN ConfigCur : \A f \in PayloadNames[k] \cap DOMAIN p :
                 IF InRange(k, p[f])
                 THEN /\ Abs(ConfigCur'[k] - p[f]) <= Tolerance(k)
                      /\ Abs(ConfigStored(k)' - p[f]) <= Tolerance(k)
                 ELSE /\ ConfigCur'[k] = ConfigCur[k]
                      /\ KeyState(preferences', k) = KeyState(preferences, k)
            /\ Has(p, "mode") => manualMode' = IsManualWord(p["mode"])
            /\ manualMode' =>
                 /\ Has(p, "pump") => manualPump' = (p["pump"] = 1)
                 /\ Has(p, "fan") => manualFan' = (p["fan"] = 1)
                 /\ Has(p, "heater") => manualHeater' = (p["heater"] = 1) ]_vars

\* the state after {"soil_wet":101,"temp_max":32,"mode":"MANUAL","pump":1}
C23_Witness ==
    /\ phase = "run" /\ SOIL_WET = 70 /\ TEMP_MAX_DAY = 320
    /\ KeyState(preferences, "temp_max") = <<320>>
    /\ KeyState(preferences, "soil_wet") = <<>>
    /\ manualMode /\ manualPump

\* the connection, provisioning and spool state
CloudVars == <<flagVars, clientConnected, spoolVars, drainVars, portalVars>>

\* a step of the control task
ControlStep == phase = "run" /\ phase' = "run" /\ pcControl' # pcControl

\* what an AUTO cycle's step decides, from the sensor snapshot, the
\* configuration and the cycle's tank reading alone
DecidedPump ==
    IF pcControl = "auto_pump_on" /\ soilMoisture < SOIL_DRY /\ tankHasWater THEN TRUE
    ELSE IF pcControl = "auto_pump_off" /\ (soilMoisture > SOIL_WET \/ ~tankHasWater)
         THEN FALSE
    ELSE pumpStatus

DecidedFan ==
    IF pcControl = "auto_fan"
    THEN currentTemp > TEMP_MAX_DAY \/ currentHum > HUM_MAX ELSE fanStatus

DecidedHeater ==
    IF pcControl = "auto_heater" THEN currentTemp < TEMP_MIN_NIGHT ELSE heaterStatus

\* C24: in every connectivity state (WiFi down or up, broker session up or
\* not, portal open, an update attempt returned, a drain in progress) the
\* control cycle has a step to take, and each of its steps leaves the
\* connectivity state alone and sets the actuators to what the sensor
\* snapshot, the configuration and the cycle's tank reading decide.
C24_ControlIndependent ==
    [][ /\ phase = "run" => ENABLED (ControlCommon \/ ControlAuto)
        /\ ControlStep =>
             /\ CloudVars' = CloudVars
             /\ pumpStatus' = DecidedPump /\ pinPump' = DecidedPump
             /\ fanStatus' = DecidedFan /\ pinFan' = DecidedFan
             /\ heaterStatus' = DecidedHeater /\ pinHeater' = DecidedHeater ]_vars

\* the pump was switched on while a drain is in progress with WiFi up
C24_Witness ==
    /\ phase = "run" /\ pcConn # "poll" /\ wifiConnected
    /\ pumpStatus /\ pcControl = "auto_fan"

\* the pump was switched on offline with the portal open
C24_WitnessPortal ==
    /\ phase = "run" /\ portalActive /\ portalRunning /\ ~wifiConnected
    /\ pumpStatus /\ pcControl = "auto_fan"

ClimateFollowsTests ==
    /\ fanStatus = (currentTemp > TEMP_MAX_DAY \/ currentHum > HUM_MAX)
    /\ pinFan = fanStatus
    /\ heaterStatus = (currentTemp < TEMP_MIN_NIGHT)
    /\ pinHeater = heaterStatus

\* C25 as stated: at the end of every control cycle run in AUTO the fan
\* is ON exactly when temp > temp_max or hum > hum_max and the heater is
\* ON exactly when temp < temp_min.
C25_ClimateLiteral == CycleEnd("AUTO") => ClimateFollowsTests

\* C25 amended: at the end of every AUTO cycle during which no command
\* was dispatched, the fan is ON exactly when temp > temp_max or
\* hum > hum_max and the heater is ON exactly when temp < temp_min,
\* whatever they were before.
C25_ClimateThresholds ==
    (CycleEnd("AUTO") /\ ~cmdInCycle) => ClimateFollowsTests

\* the fan on for humidity alone, the heater on at 35.0 degrees under a
\* raised temp_min
C25_Witness ==
    /\ CycleEnd("AUTO") /\ ~cmdInCycle
    /\ currentTemp <= TEMP_MAX_DAY /\ currentHum > HUM_MAX /\ fanStatus
    /\ currentTemp = 350 /\ heaterStatus

\* C26: in every reachable state in which the mode is AUTO the three
\* overrides are false, and every step that leaves MANUAL clears them.
C26_AutoClearsOverrides ==
    /\ [](~manualMode => AllLatchesClear)
    /\ [][(manualMode /\ ~manualMode') => AllLatchesClear']_vars

\* AUTO was entered by a command after a MANUAL cycle that ran with the
\* fan and heater overrides latched
C26_Witness ==
    /\ phase = "run" /\ pcControl = "done" /\ cycleMode = "MANUAL"
    /\ fanStatus /\ heaterStatus /\ cmdInCycle
    /\ ~manualMode /\ AllLatchesClear

\* a call of WiFi.reconnect()
ReconnectCall == retryParity' # retryParity

\* C27: a device whose WiFi stays down with no portal issues reconnect
\* attempts again and again; and when the access point stays in range the
\* device reaches and keeps wifi_up, with no button press and no restart
\* after the first boot.
C27_SelfHealing ==
    /\ (<>[](phase = "run" /\ ~staConnected /\ ~portalRunning))
           => []<><<ReconnectCall>>_vars
    /\ (<>[]networkUp) => <>[]wifiConnected
    /\ [](~everPressed /\ boots <= 1)

\* WiFi came up after the boot attempt had failed and a reconnect was issued
C27_Witness ==
    /\ phase = "run" /\ boots = 1 /\ ~everPressed
    /\ wifiConnected /\ staConnected /\ retryParity /\ ~reconnectPending

\* C28: client.connect() is never called while the clock is below the
\* sanity threshold.
C28_ConnectAfterTime == ~connectBeforeTime

\* C29: the RAM batch never holds more than RAM_BUFFER_SIZE records,
\* whether or not the spool file can be opened for append.
C29_RamBatchBounded ==
    ramBufferCount <= RAM_BUFFER_SIZE /\ Len(ramBuffer) <= RAM_BUFFER_SIZE

\* C30: from the first step of a control cycle to its end no sensor
\* variable changes, so the pump ON test and the pump OFF test see one soil
\* reading and the fan and heater tests one temperature; at the end of an
\* AUTO cycle the soil value each pump test read is the current one.
C30_NoTornReads ==
    /\ [][(phase = "run" /\ phase' = "run" /\ pcControl # "delay"
              /\ pcControl' # "measure")
            => sensorVars' = sensorVars]_vars
    /\ [](CycleEnd("AUTO") => (soilAtOn = soilAtOff /\ soilAtOff = soilMoisture))

\* an AUTO cycle that found wet soil and a driver reading after a cycle
\* that had the pump running on dry soil
C30_Witness ==
    /\ CycleEnd("AUTO") /\ pumpBefore /\ ~pumpStatus
    /\ soilAtOn = 75 /\ soilAtOff = 75 /\ currentTemp = 350

(* ------------------------------------------------------------------ *)
(* Claims on the failure path and the termination of a drain           *)
(* ------------------------------------------------------------------ *)

\* a publish call of the drain loop that returns false, or is not made
\* because client.connected() is false
FailedLine ==
    /\ phase = "run" /\ phase' = "run"
    /\ pcConn = "drain_line" /\ linePos <= Len(processing)
    /\ (~clientConnected \/ publishFailures' = publishFailures + 1)

\* C31: when a publish fails (or the client is disconnected) while
\* /processing.txt is iterated, the call returns at that line: no further
\* line is published, /processing.txt keeps its content, /offline_log.txt
\* is neither renamed nor removed and the RAM batch is untouched.
C31_DrainFailurePath ==
    [][FailedLine =>
         /\ pcConn' = "poll"
         /\ published' = published
         /\ processing' = processing
         /\ offlineLog' = offlineLog
         /\ ramBuffer' = ramBuffer /\ ramBufferCount' = ramBufferCount]_vars

\* a drain has stopped at the second line of /processing.txt, with a
\* record waiting in the RAM batch
C31_Witness ==
    /\ phase = "run" /\ pcConn = "poll"
    /\ processing = <<1, 2>> /\ 1 \in published /\ 2 \notin published
    /\ ramBuffer = <<3>> /\ publishFailures >= 1

\* C32: in every reachable state in which /offline_log.txt or
\* /processing.txt exists hasOfflineData is true, so the entry test of
\* processOfflineData never skips a drain while records are on disk.
C32_FlagNeverHides ==
    (offlineLog # NoFile \/ processing # NoFile) => hasOfflineData

\* within the first boot a drain found no file (and cleared the flag),
\* and a later flush created the log
C32_Witness ==
    /\ phase = "run" /\ boots = 1 /\ pcConn = "poll"
    /\ drainStartFiles = "none" /\ published # {}
    /\ offlineLog # NoFile /\ hasOfflineData

FileLen(f) == IF f = NoFile THEN 0 ELSE Len(f)

\* the lines of /offline_log.txt the running call will still reach
StagedLines == IF foundLog THEN FileLen(offlineLog) ELSE 0

\* an upper bound on the publish calls the running call can still make
PublishesLeft ==
    CASE pcConn = "drain_entry" -> FileLen(processing) + FileLen(offlineLog)
      [] pcConn = "drain_open" -> FileLen(processing) + StagedLines
      [] pcConn = "drain_line" -> (Len(processing) + 1 - linePos) + StagedLines
      [] pcConn \in {"drain_remove", "drain_rename"} -> StagedLines
      [] OTHER -> 0

\* the position inside one level of the call, counted from its end
StageLeft ==
    CASE pcConn = "drain_entry" -> 4
      [] pcConn = "drain_open" -> 3
      [] pcConn = "drain_line" -> 2
      [] pcConn = "drain_remove" -> 1
      [] OTHER -> 0

\* a variant function of processOfflineData: lines still to publish, then
\* levels still to enter, then the position in the level
StepsLeft ==
    IF pcConn = "poll" THEN 0
    ELSE 10 * PublishesLeft + 5 * (IF depth = 0 THEN 1 ELSE 0) + StageLeft

\* a step of the running call; a publish call of its loop
DrainStep ==
    /\ phase = "run" /\ phase' = "run" /\ pcConn # "poll"
    /\ (pcConn' # pcConn \/ linePos' # linePos)
DrainPublish == DrainStep /\ pcConn = "drain_line" /\ linePos <= Len(processing)

\* C33: processOfflineData terminates: whatever files exist and whatever
\* the publish calls return, the recursion after the rename is at most one
\* level deep, every step of the call brings it closer to its return, and
\* the publish calls it makes are bounded by the lines on disk (each
\* publish uses up one of the lines still to send).
C33_DrainTerminates ==
    /\ [](/\ depth <= 1
          /\ PublishesLeft >= 0
          /\ PublishesLeft <= FileLen(processing) + FileLen(offlineLog))
    /\ [][DrainStep => (StepsLeft' < StepsLeft /\ PublishesLeft' <= PublishesLeft)]_vars
    /\ [][DrainPublish => PublishesLeft' < PublishesLeft]_vars

\* the recursive call is iterating the renamed log, after the pending
\* file was published and removed by the outer call
C33_Witness ==
    /\ phase = "run" /\ pcConn = "drain_line" /\ depth = 1
    /\ drainStartFiles = "both" /\ linePos = Len(processing)
    /\ published # {}

(* ------------------------------------------------------------------ *)
(* Claims on the order of the spool                                    *)
(* ------------------------------------------------------------------ *)

\* record ids grow with the time of generation
Ascending(s) == \A i, j \in DOMAIN s : i < j => s[i] < s[j]
Older(A, B) == \A a \in A, b \in B : a < b

\* the records published by a drain so far: they were on disk when a
\* drain started (a record published by the telemetry block never is)
Drained == published \cap atDrainStart

\* C34: spooled records are published in generation order: the first
\* publish of a record by the drain comes after the first publish of
\* every record of the spool generated before it that is published at
\* all, across flushes, renames, failed passes and retries; the pending
\* /processing.txt holds older records than /offline_log.txt, which holds
\* older records than the RAM batch.
C34_GenerationOrder ==
    /\ [](/\ Ascending(ramBuffer)
          /\ (processing # NoFile => Ascending(processing))
          /\ (offlineLog # NoFile => Ascending(offlineLog))
          /\ Older(FileRecords(processing), FileRecords(offlineLog))
          /\ Older(FileRecords(processing) \cup FileRecords(offlineLog),
                   Range(ramBuffer)))
    /\ [][(phase = "run" /\ pcConn = "drain_line") =>
            \A r \in published' \ published : Older(Drained, {r})]_vars

\* records of two flushes have been drained in order, with a failed
\* publish on the way
C34_Witness ==
    /\ phase = "run" /\ pcConn = "poll" /\ publishFailures >= 1
    /\ {1, 2, 3} \subseteq Drained
    /\ processing = NoFile /\ offlineLog = NoFile

(* ------------------------------------------------------------------ *)
(* Claims on the persisted configuration (SpecWear)                    *)
(* ------------------------------------------------------------------ *)

\* C35: after the boot has loaded the configuration and after every
\* handled payload, each of the nine configuration values in RAM equals
\* the value stored under its key, or the default when the key was never
\* written (persistence writes taken to succeed).
C35_RamMatchesStore ==
    phase = "run" => \A k \in DOMAIN ConfigCur : ConfigCur[k] = ConfigStored(k)

\* after a restart: two values loaded from the store, one then changed by
\* a command, and a key that was never written
C35_Witness ==
    /\ phase = "run" /\ boots = 2
    /\ HUM_MAX = 700 /\ SOIL_WET = 60 /\ AIR_VAL = 4000
    /\ KeyState(preferences, "cal_air") = <<4000>>
    /\ KeyState(preferences, "cal_water") = <<>> /\ WATER_VAL = 1670

(* ------------------------------------------------------------------ *)
(* Claims on the linear maps (SpecDiv)                                 *)
(* ------------------------------------------------------------------ *)

\* C36: after any sequence of accepted commands cal_air differs from
\* cal_water and tank_empty_dist differs from tank_full_dist, so both
\* linear maps are defined, and soil_pct and tank_level_pct stay within
\* 0..100.
C36_MapsDefined ==
    phase = "run" =>
        /\ AIR_VAL # WATER_VAL
        /\ TANK_EMPTY_DIST # TANK_FULL_DIST
        /\ PercentOk(soilMoisture)
        /\ PercentOk(waterTankLevel)

(* ------------------------------------------------------------------ *)
(* Claims on the rollback request and its alert                        *)
(* ------------------------------------------------------------------ *)

\* setup takes the rollback branch
RollbackRequested == phase = "boot" /\ rollbacks' = rollbacks + 1

\* C37: the rollback is requested at a boot only if at least three
\* earlier boots performed the crash_count increment since the counter
\* was last 0, with no successful MQTT connection between them; a boot
\* that follows a successful connection by fewer than three boots never
\* rolls back.
C37_NoEarlyRollback ==
    /\ [][RollbackRequested =>
            (unverifiedBoots >= RollbackThreshold /\ CrashCount >= RollbackThreshold)]_vars
    /\ [][(phase = "boot" /\ boots' = boots + 1 /\ unverifiedBoots < RollbackThreshold)
            => (phase' = "run" /\ rollbacks' = rollbacks /\ RbHappened' = RbHappened)]_vars

\* the only rollback of a run of seven boots: a connection reset the
\* counter of earlier unverified boots, and three counted boots followed
C37_Witness ==
    /\ phase = "boot" /\ lastBoot = "rollback" /\ rollbacks = 1 /\ boots = MaxBoots
    /\ RbHappened /\ alertsSinceRollback = 0

\* the alert's publish call failed and the session it was made on is up
PendingOnSession ==
    phase = "run" /\ RbHappened /\ clientConnected /\ alertFailures >= 1

\* C38: a pending rollback alert is eventually delivered: after a failed
\* alert publish the publish is attempted again while the device keeps
\* running, and once publish calls succeed rb_happened is cleared, even
\* if the MQTT session never drops in between (so a pending alert on a
\* live session leads to the alert delivered, unless the session drops or
\* the device restarts first).
C38_AlertRetried ==
    PendingOnSession ~> (~RbHappened \/ ~clientConnected \/ phase = "boot")

====
